---- MODULE Spec2Model ----
(***************************************************************************)
(* Nomad service checks: the check id derivation (nomad/structs), the      *)
(* check store shim (client/serviceregistration/checks/checkstore) and the *)
(* allocrunner checks hook with its observers (client/allocrunner).        *)
(*                                                                         *)
(* Three specifications share the variables below:                         *)
(*   SpecCheckID  the pure id derivations applied to pairs of checks,       *)
(*   SpecStore    the shim's operations over the durable store,             *)
(*   Spec         the checks hook, its observer goroutines and the shim.    *)
(***************************************************************************)
EXTENDS Integers, Sequences, FiniteSets, Bags, TLC

VARIABLES
    current,    \* shim.current: alloc id -> check id -> latest result (cache)
    db,         \* shim.db: the durable check results, same shape
    ret,        \* the last shim operation called from outside and what it returned
    hook,       \* the dynamic fields of checksHook: ctx, stop, alloc
    observers,  \* checksHook.observers: check id -> observer
    orphans,    \* observers deleted from the map whose goroutine has not exited
    panicked,   \* "" or the reason the process panicked
    failures,   \* how many calls the db has failed so far
    pin,        \* SpecCheckID: the pair of check definitions under derivation
    pout,       \* SpecCheckID: the derived ids
    objects,    \* SpecAlias: the CheckQueryResult objects, address -> value
    pointers,   \* SpecAlias: shim.current as Go holds it, id -> address
    listed,     \* SpecAlias: the map the caller got from its last List
    lock,       \* SpecLock: shim.lock, its writer and its readers
    calls       \* SpecLock: the call each goroutine is in, and where

vars == <<current, db, ret, hook, observers, orphans, panicked, failures, pin, pout,
          objects, pointers, listed, lock, calls>>

storeVars == <<current, db, ret, failures>>
hookVars == <<hook, observers, orphans, panicked>>
pureVars == <<pin, pout>>
aliasVars == <<objects, pointers, listed>>
lockVars == <<lock, calls>>

(***************************************************************************)
(* Bounds of the model.                                                    *)
(***************************************************************************)
\* largest check interval and timeout (in time units) SpecCheckID draws
MaxInterval == 2
\* most observers whose goroutine outlives their removal from the hook's map
MaxOrphans == 1
\* most db calls that fail in one run of Spec
MaxFailures == 1
\* the executions of a check that are counted
MaxRuns == 2
\* the calls of one caller and operation in an interval that are counted
MaxIssued == 2

(***************************************************************************)
(* Strings and bytes.                                                      *)
(***************************************************************************)
\* the byte value of each character the model's strings use (ASCII)
Ord ==
    [c \in {"/", "E", "G", "T", "a", "e", "g", "h", "i", "n", "o", "p", "r",
            "s", "t", "x", "c", "1", "2", "-", "_", "k", "b"} |->
        CASE c = "/" -> 47  [] c = "E" -> 69  [] c = "G" -> 71  [] c = "T" -> 84
          [] c = "a" -> 97  [] c = "e" -> 101 [] c = "g" -> 103 [] c = "h" -> 104
          [] c = "i" -> 105 [] c = "n" -> 110 [] c = "o" -> 111 [] c = "p" -> 112
          [] c = "r" -> 114 [] c = "s" -> 115 [] c = "t" -> 116 [] c = "x" -> 120
          [] c = "c" -> 99  [] c = "1" -> 49  [] c = "2" -> 50  [] c = "-" -> 45
          [] c = "_" -> 95  [] c = "k" -> 107 [] c = "b" -> 98]

\* []byte(s)
Bytes(s) == [i \in 1..Len(s) |-> Ord[SubSeq(s, i, i)]]

\* the n low bytes of v >= 0, least significant first
RECURSIVE LittleEndian(_, _)
LittleEndian(v, n) ==
    IF n = 0 THEN <<>> ELSE <<v % 256>> \o LittleEndian(v \div 256, n - 1)

\* binary.Write(sum, binary.LittleEndian, v) for an int64 v >= 0: 8 bytes
LittleEndian64(v) == LittleEndian(v, 8)

(***************************************************************************)
(* nomad/structs: check modes, statuses and ids.                           *)
(***************************************************************************)
Healthiness == "healthiness"
Readiness == "readiness"

CheckSuccess == "success"
CheckFailure == "failure"
CheckPending == "pending"

\* a nil *ServiceCheck
NilCheck == [nil |-> TRUE]

\* GetCheckMode: readiness exactly for a check with on_update = "ignore"
GetCheckMode(c) ==
    IF c # NilCheck /\ c.OnUpdate = "ignore" THEN Readiness ELSE Healthiness

\* md5.Sum followed by %x, idealised as injective on the byte stream written:
\* the id is the stream itself
Md5Hex(stream) == stream

\* the closure write of NomadCheckID: an empty string writes nothing
HashWrite(sum, s) == IF s # "" THEN sum \o Bytes(s) ELSE sum

\* NomadCheckID(allocID, group, c): every field of the check goes into the sum,
\* one after the other with nothing between them
NomadCheckID(allocID, group, c) ==
    LET s1 == HashWrite(<<>>, allocID)
        s2 == HashWrite(s1, group)
        s3 == HashWrite(s2, c.TaskName)
        s4 == HashWrite(s3, c.Name)
        s5 == HashWrite(s4, c.Type)
        s6 == HashWrite(s5, c.PortLabel)
        s7 == HashWrite(s6, c.OnUpdate)
        s8 == HashWrite(s7, c.AddressMode)
        s9 == s8 \o LittleEndian64(c.Interval)
        s10 == s9 \o LittleEndian64(c.Timeout)
        s11 == HashWrite(s10, c.Protocol)
        s12 == HashWrite(s11, c.Path)
        s13 == HashWrite(s12, c.Method)
    IN  Md5Hex(s13)

\* MakeCheckID(allocID, group, task, name): "chk_<group>_[<task>_]<name>_<id[0:8]>"
MakeCheckID(allocID, group, task, name) ==
    LET id == SubSeq(allocID, 1, 8)
    IN  IF task = ""
        THEN "chk_" \o group \o "_" \o name \o "_" \o id
        ELSE "chk_" \o group \o "_" \o task \o "_" \o name \o "_" \o id

(***************************************************************************)
(* The allocation the model runs, and the check definitions of a job.      *)
(***************************************************************************)
\* alloc.ID (a uuid; only its first eight characters reach a check id)
AllocID == "a1a1a1a1-a"
\* another allocation of the same client, sharing the check store
OtherAllocID == "b2b2b2b2-b"
AllocIDs == {AllocID, OtherAllocID}
\* alloc.TaskGroup
TaskGroup == "g"

Intervals == 1..MaxInterval

\* the fields of a ServiceCheck that decide how it is executed
ExecFields ==
    {"Type", "PortLabel", "OnUpdate", "AddressMode", "Interval", "Timeout",
     "Protocol", "Path", "Method"}

\* structs.ServiceCheck values of one name in one task
ServiceChecks ==
    [Name : {"n1"}, TaskName : {"t"},
     Type : {"tcp", "http"}, PortLabel : {"", "ignore"},
     OnUpdate : {"", "ignore"}, AddressMode : {"", "host"},
     Interval : Intervals, Timeout : Intervals,
     Protocol : {"", "https"}, Path : {"", "/x"}, Method : {"", "GET"}]

\* the execution-relevant fields in which two check definitions differ
DiffFields(a, b) == {f \in ExecFields : a[f] # b[f]}

NoIDs == [fn |-> "none"]

(***************************************************************************)
(* SpecCheckID: a job update changes at most two fields of a check; both   *)
(* id derivations are applied to the old and the new definition.           *)
(***************************************************************************)
\* the values the model draws for each execution-relevant field
FieldValues ==
    [Type |-> {"tcp", "http"}, PortLabel |-> {"", "ignore"},
     OnUpdate |-> {"", "ignore"}, AddressMode |-> {"", "host"},
     Interval |-> Intervals, Timeout |-> Intervals,
     Protocol |-> {"", "https"}, Path |-> {"", "/x"}, Method |-> {"", "GET"}]

\* the definitions a job update can turn check a into, changing up to two fields
Variants(a) ==
    UNION {{[[a EXCEPT ![f] = v] EXCEPT ![g] = w] :
               v \in FieldValues[f], w \in FieldValues[g]} :
           f \in ExecFields, g \in ExecFields}

\* the pairs (old definition, new definition) SpecCheckID starts from
CheckPairs == UNION {{<<a, b>> : b \in Variants(a)} : a \in ServiceChecks}

DeriveNomadCheckID ==
    /\ pout = NoIDs
    /\ pout' = [fn |-> "NomadCheckID",
                a |-> NomadCheckID(AllocID, TaskGroup, pin[1]),
                b |-> NomadCheckID(AllocID, TaskGroup, pin[2])]
    /\ UNCHANGED <<pin, storeVars, hookVars, aliasVars, lockVars>>

DeriveMakeCheckID ==
    /\ pout = NoIDs
    /\ pout' = [fn |-> "MakeCheckID",
                a |-> MakeCheckID(AllocID, TaskGroup, pin[1].TaskName, pin[1].Name),
                b |-> MakeCheckID(AllocID, TaskGroup, pin[2].TaskName, pin[2].Name)]
    /\ UNCHANGED <<pin, storeVars, hookVars, aliasVars, lockVars>>

(***************************************************************************)
(* Maps (Go maps as functions on a finite domain).                         *)
(***************************************************************************)
EmptyMap == <<>>

\* the caller holds no map yet
NoListed == [nil |-> TRUE, m |-> EmptyMap]

MapPut(m, k, v) == [x \in (DOMAIN m) \cup {k} |-> IF x = k THEN v ELSE m[x]]

MapDelete(m, ks) == [x \in (DOMAIN m) \ ks |-> m[x]]

(***************************************************************************)
(* client/state StateDB: the durable check results. A failing call returns *)
(* an error and leaves the stored results as they were.                    *)
(***************************************************************************)
\* db.PutCheckResult(allocID, qr)
PutCheckResult(d, allocID, qr, ok) ==
    IF ok THEN [d EXCEPT ![allocID] = MapPut(@, qr.ID, qr)] ELSE d

\* db.DeleteCheckResults(allocID, ids)
DeleteCheckResults(d, allocID, ids, ok) ==
    IF ok THEN [d EXCEPT ![allocID] = MapDelete(@, ids)] ELSE d

\* db.PurgeCheckResults(allocID)
PurgeCheckResults(d, allocID, ok) ==
    IF ok THEN [d EXCEPT ![allocID] = EmptyMap] ELSE d

(***************************************************************************)
(* checkstore.shim: the cache each method leaves, and what it returns.     *)
(***************************************************************************)
\* NewStore: an empty cache over the db; restore is not implemented and not
\* called, nothing is read back from the db
NewStore == EmptyMap

\* the reason shim.Set panics, "" when it does not
SetPanic(allocID, qr) ==
    IF allocID = "" THEN "empty alloc id"
    ELSE IF qr.ID = "" THEN "empty qr id"
    ELSE ""

\* a Set that makes a new map for the allocation on every call, losing its
\* other results: what shim.Set must not be
ShimSetFreshMap(cur, allocID, qr) ==
    MapPut(cur, allocID, MapPut(EmptyMap, qr.ID, qr))

\* shim.Set: s.current[allocID][qr.ID] = qr, creating the allocation's map
ShimSet(cur, allocID, qr) ==
    LET m == IF allocID \in DOMAIN cur THEN cur[allocID] ELSE EmptyMap
    IN  MapPut(cur, allocID, MapPut(m, qr.ID, qr))

\* shim.List: nil for an unknown allocation, else a copy of its map
ShimList(cur, allocID) ==
    IF allocID \in DOMAIN cur
    THEN [nil |-> FALSE, m |-> cur[allocID]]
    ELSE [nil |-> TRUE, m |-> EmptyMap]

\* a Purge that replaces the whole cache with a new map, dropping every
\* allocation: what shim.Purge must not be
ShimPurgeAll(cur, allocID) == EmptyMap

\* shim.Purge: delete(s.current, allocID)
ShimPurge(cur, allocID) == MapDelete(cur, {allocID})

\* an Unwanted without the negation of slices.Contains, returning the cached
\* ids that are in ids: what shim.Unwanted must not be
ShimUnwantedOfKept(cur, allocID, ids) ==
    IF allocID \in DOMAIN cur THEN (DOMAIN cur[allocID]) \cap ids ELSE {}

\* shim.Unwanted: the cached ids of allocID that are not in ids
ShimUnwanted(cur, allocID, ids) ==
    IF allocID \in DOMAIN cur THEN (DOMAIN cur[allocID]) \ ids ELSE {}

\* a Keep that deletes the ids it was told to keep: what shim.Keep must not be
ShimKeepDroppingKept(cur, allocID, ids) ==
    IF allocID \in DOMAIN cur
    THEN [cur EXCEPT ![allocID] = MapDelete(@, ids)]
    ELSE cur

\* shim.Keep: delete every cached id of allocID that is not in ids; an
\* unknown allocation stays unknown
ShimKeep(cur, allocID, ids) ==
    IF allocID \in DOMAIN cur
    THEN [cur EXCEPT ![allocID] = MapDelete(@, ShimUnwanted(cur, allocID, ids))]
    ELSE cur

\* shim.Remove: delete the given ids of allocID from the cache
ShimRemove(cur, allocID, ids) ==
    IF allocID \in DOMAIN cur
    THEN [cur EXCEPT ![allocID] = MapDelete(@, ids)]
    ELSE cur

(***************************************************************************)
(* shim.lock, a sync.RWMutex: one writer or any number of readers.         *)
(***************************************************************************)
\* the goroutines that call the store: two observers and a reader of results
Setters == {"o1", "o2"}
Listers == {"api"}
Goroutines == Setters \cup Listers

Unlocked == [writer |-> "", readers |-> {}]

\* s.lock.Lock() returns when nobody holds the lock
CanLock(l) == l.writer = "" /\ l.readers = {}

\* s.lock.RLock() returns when no writer holds the lock
CanRLock(l) == l.writer = ""

(***************************************************************************)
(* checks.Stub and the results the callers of the store hand it.           *)
(***************************************************************************)
Names == {"n1", "n2"}
\* the readings of the clock (unix seconds): the model runs within one second
Times == {1}

\* checks.Stub(id, kind, now)
Stub(id, kind, now) ==
    [ID |-> id, Kind |-> kind, Status |-> CheckPending,
     Output |-> "waiting on nomad", Timestamp |-> now]

NoResult ==
    [ID |-> "", Kind |-> Healthiness, Status |-> CheckPending,
     Output |-> "", Timestamp |-> 0]

\* the check ids of the group-level checks of allocation a: the other
\* allocation runs one check
GroupCheckIDs(a) ==
    {MakeCheckID(a, TaskGroup, "", n) :
        n \in IF a = AllocID THEN Names ELSE {"n1"}}

\* the results SpecStore's callers set for allocation a: a stub and a success
\* for each id, and a result with no id
CallerResults(a) ==
    UNION {{Stub(id, Healthiness, 1),
            [ID |-> id, Kind |-> Healthiness, Status |-> CheckSuccess,
             Output |-> "nomad: ok", Timestamp |-> 1]} :
           id \in GroupCheckIDs(a)}

\* the results a caller sets under allocID, the empty ones included
SetArguments(allocID) ==
    IF allocID = "" THEN CallerResults(AllocID)
    ELSE CallerResults(allocID) \cup {NoResult}

NoRet ==
    [op |-> "NewStore", alloc |-> "", qr |-> NoResult, ids |-> {},
     err |-> FALSE, val |-> ShimList(EmptyMap, "")]

\* a goroutine that is in no call of the store
Idle == [op |-> "", pc |-> "idle", qr |-> NoResult, err |-> FALSE,
         val |-> ShimList(EmptyMap, "")]

NoCalls == [g \in Goroutines |-> Idle]

\* a db holding no check result
EmptyDb == [a \in AllocIDs |-> EmptyMap]

(***************************************************************************)
(* SpecStore: the shim's methods called one at a time (each holds s.lock   *)
(* from entry to return), with a db that may fail any call, and the agent  *)
(* restarting.                                                             *)
(***************************************************************************)
\* a Set that takes its cache entry back when the db refuses the result: what
\* shim.Set does not do
StoreSetRollingBack(allocID, qr, ok) ==
    /\ panicked = ""
    /\ IF SetPanic(allocID, qr) # ""
       THEN /\ panicked' = SetPanic(allocID, qr)
            /\ UNCHANGED <<current, db, ret>>
       ELSE /\ current' = IF ok THEN ShimSet(current, allocID, qr) ELSE current
            /\ db' = PutCheckResult(db, allocID, qr, ok)
            /\ ret' = [NoRet EXCEPT !.op = "Set", !.alloc = allocID, !.qr = qr,
                                    !.err = ~ok]
            /\ UNCHANGED panicked
    /\ UNCHANGED <<hook, observers, orphans, failures, pureVars, aliasVars, lockVars>>

StoreSet(allocID, qr, ok) ==
    /\ panicked = ""
    /\ IF SetPanic(allocID, qr) # ""
       THEN /\ panicked' = SetPanic(allocID, qr)
            /\ UNCHANGED <<current, db, ret>>
       ELSE /\ current' = ShimSet(current, allocID, qr)
            /\ db' = PutCheckResult(db, allocID, qr, ok)
            /\ ret' = [NoRet EXCEPT !.op = "Set", !.alloc = allocID, !.qr = qr,
                                    !.err = ~ok]
            /\ UNCHANGED panicked
    /\ UNCHANGED <<hook, observers, orphans, failures, pureVars, aliasVars, lockVars>>

StoreList(allocID) ==
    /\ panicked = ""
    /\ ret' = [NoRet EXCEPT !.op = "List", !.alloc = allocID,
                            !.val = ShimList(current, allocID)]
    /\ UNCHANGED <<current, db, failures, hookVars, pureVars, aliasVars, lockVars>>

StoreUnwanted(allocID, ids) ==
    /\ panicked = ""
    /\ ret' = [NoRet EXCEPT !.op = "Unwanted", !.alloc = allocID,
                            !.ids = ShimUnwanted(current, allocID, ids)]
    /\ UNCHANGED <<current, db, failures, hookVars, pureVars, aliasVars, lockVars>>

\* a Keep that hands the db the ids to keep instead of the ids it removed:
\* what shim.Keep must not be
StoreKeepDeletingKept(allocID, ids, ok) ==
    /\ panicked = ""
    /\ current' = ShimKeep(current, allocID, ids)
    /\ db' = DeleteCheckResults(db, allocID, ids, ok)
    /\ ret' = [NoRet EXCEPT !.op = "Keep", !.alloc = allocID, !.ids = ids,
                            !.err = ~ok]
    /\ UNCHANGED <<failures, hookVars, pureVars, aliasVars, lockVars>>

StoreKeep(allocID, ids, ok) ==
    /\ panicked = ""
    /\ current' = ShimKeep(current, allocID, ids)
    /\ db' = DeleteCheckResults(db, allocID, ShimUnwanted(current, allocID, ids), ok)
    /\ ret' = [NoRet EXCEPT !.op = "Keep", !.alloc = allocID, !.ids = ids,
                            !.err = ~ok]
    /\ UNCHANGED <<failures, hookVars, pureVars, aliasVars, lockVars>>

StoreRemove(allocID, ids, ok) ==
    /\ panicked = ""
    /\ current' = ShimRemove(current, allocID, ids)
    /\ db' = DeleteCheckResults(db, allocID, ids, ok)
    /\ ret' = [NoRet EXCEPT !.op = "Remove", !.alloc = allocID, !.ids = ids,
                            !.err = ~ok]
    /\ UNCHANGED <<failures, hookVars, pureVars, aliasVars, lockVars>>

StorePurge(allocID, ok) ==
    /\ panicked = ""
    /\ current' = ShimPurge(current, allocID)
    /\ db' = PurgeCheckResults(db, allocID, ok)
    /\ ret' = [NoRet EXCEPT !.op = "Purge", !.alloc = allocID, !.err = ~ok]
    /\ UNCHANGED <<failures, hookVars, pureVars, aliasVars, lockVars>>

\* the agent restarts: NewStore builds a new shim over the same db
StoreRestart ==
    /\ panicked = ""
    /\ current' = NewStore
    /\ ret' = NoRet
    /\ UNCHANGED <<db, failures, hookVars, pureVars, aliasVars, lockVars>>

NextStore ==
    \/ \E a \in AllocIDs \cup {""}, ok \in BOOLEAN :
         \E qr \in SetArguments(a) : StoreSet(a, qr, ok)
    \/ \E a \in AllocIDs : StoreList(a)
    \/ \E a \in AllocIDs : \E ids \in SUBSET GroupCheckIDs(a) :
         StoreUnwanted(a, ids)
    \/ \E a \in AllocIDs, ok \in BOOLEAN : \E ids \in SUBSET GroupCheckIDs(a) :
         StoreKeep(a, ids, ok)
    \/ \E a \in AllocIDs, ok \in BOOLEAN : \E ids \in SUBSET GroupCheckIDs(a) :
         StoreRemove(a, ids, ok)
    \/ \E a \in AllocIDs, ok \in BOOLEAN : StorePurge(a, ok)
    \/ StoreRestart

(***************************************************************************)
(* The allocations handed to the checks hook. Services holds what          *)
(* group.NomadServices() returns, each service with its checks; Found      *)
(* tells whether alloc.Job.LookupTaskGroup(alloc.TaskGroup) finds a group. *)
(***************************************************************************)
Tasks == {"", "t"}

\* the check definitions of the jobs the hook runs: n1 of the group on either
\* interval, n2 of the group, and n1 naming task t
HookChecks ==
    {c \in [Name : Names, TaskName : Tasks,
             Type : {"tcp"}, PortLabel : {""}, OnUpdate : {""}, AddressMode : {""},
             Interval : Intervals, Timeout : {1},
             Protocol : {""}, Path : {""}, Method : {""}] :
        \/ c.Name = "n1" /\ c.TaskName = ""
        \/ c.Interval = 1 /\ (c.Name = "n2" <=> c.TaskName = "")}

\* a service of task TaskName ("" for a group service) with one check; the
\* check of a task service belongs to that task
HookServices ==
    {sv \in [TaskName : Tasks, Checks : {<<c>> : c \in HookChecks}] :
        sv.TaskName # "" => sv.Checks[1].TaskName = sv.TaskName}

\* the allocation whose task group is missing from its job
GrouplessAlloc ==
    [ID |-> AllocID, TaskGroup |-> TaskGroup, Found |-> FALSE, Services |-> <<>>]

\* the group services whose check runs on the shortest interval
QuickGroupServices ==
    {sv \in HookServices :
        /\ sv.TaskName = ""
        /\ sv.Checks[1].TaskName = ""
        /\ sv.Checks[1].Interval = 1}

\* the services of a job: none, any one service, or two quick group services
\* of different names
ServiceLists ==
    {<<>>} \cup {<<sv>> : sv \in HookServices}
           \cup {<<sv, sw>> : sv \in {x \in QuickGroupServices : x.Checks[1].Name = "n1"},
                              sw \in {x \in QuickGroupServices : x.Checks[1].Name = "n2"}}

Allocations ==
    {GrouplessAlloc} \cup
    [ID : {AllocID}, TaskGroup : {TaskGroup}, Found : {TRUE},
     Services : ServiceLists]

RECURSIVE ServiceChecksOf(_)
\* the (service, check) pairs in the order the nested loops visit them
ServiceChecksOf(services) ==
    IF services = <<>> THEN <<>>
    ELSE [i \in 1..Len(Head(services).Checks) |->
             [service |-> Head(services), check |-> Head(services).Checks[i]]]
         \o ServiceChecksOf(Tail(services))

(***************************************************************************)
(* checks: the query of a check and the checker's result.                  *)
(***************************************************************************)
\* a GetCheckQuery that makes every query a healthiness query: what
\* GetCheckQuery must not be
GetCheckQueryOfHealthiness(c) ==
    [Kind |-> Healthiness, Type |-> c.Type, AddressMode |-> c.AddressMode,
     PortLabel |-> c.PortLabel, Path |-> c.Path, Method |-> c.Method,
     Protocol |-> IF c.Protocol # "" THEN c.Protocol ELSE "http"]

\* checks.GetCheckQuery(c): the protocol defaults to http
GetCheckQuery(c) ==
    [Kind |-> GetCheckMode(c), Type |-> c.Type, AddressMode |-> c.AddressMode,
     PortLabel |-> c.PortLabel, Path |-> c.Path, Method |-> c.Method,
     Protocol |-> IF c.Protocol # "" THEN c.Protocol ELSE "http"]

\* checker.Do(qc, q) when the probe ends with the given status at time now
CheckerDo(qc, q, status, now) ==
    [ID |-> qc.ID, Kind |-> q.Kind, Status |-> status,
     Output |-> IF status = CheckSuccess THEN "nomad: ok" ELSE "nomad: error",
     Timestamp |-> now]

(***************************************************************************)
(* checks.checker: a probe, statement by statement. What the network and   *)
(* the libraries answer is given by env: resolve (what GetAddress          *)
(* returns), dial (the error of net.Dial, "" for none) and http (the       *)
(* errors of http.NewRequest, of httpClient.Do and of ioutil.ReadAll, the  *)
(* status code and the body). A result is [qr, made]: the QueryResult and  *)
(* the calls made, in order. client.go names the status field Result; the  *)
(* store and the hook name it Status.                                      *)
(***************************************************************************)
\* the size an Output may have, scaled: the description of the store names
\* a cap of about 3 KB, the checker has no such constant
OutputSizeCap == 48

RECURSIVE Repeat(_, _)
\* the text s, n times
Repeat(s, n) == IF n = 0 THEN "" ELSE s \o Repeat(s, n - 1)

Digits == <<"0", "1", "2", "3", "4", "5", "6", "7", "8", "9">>

RECURSIVE Itoa(_)
\* strconv.Itoa(n) for n >= 0
Itoa(n) == IF n < 10 THEN Digits[n + 1] ELSE Itoa(n \div 10) \o Digits[(n % 10) + 1]

\* strings.Contains(s, ch) for a one-character ch
ContainsChar(s, ch) == \E i \in 1..Len(s) : SubSeq(s, i, i) = ch

\* net.JoinHostPort(host, port): a host with a colon or a percent sign is
\* put in brackets
JoinHostPort(host, port) ==
    IF ContainsChar(host, ":") \/ ContainsChar(host, "%")
    THEN "[" \o host \o "]:" \o port
    ELSE host \o ":" \o port

\* (&url.URL{Scheme, Host, Path}).String(): a path without a leading slash
\* gets one after a host
URLString(scheme, host, path) ==
    scheme \o "://" \o host
           \o (IF path # "" /\ SubSeq(path, 1, 1) # "/" THEN "/" ELSE "") \o path

\* a call the checker makes, with its arguments
Call(fn, a, b, c) == [fn |-> fn, a |-> a, b |-> b, c |-> c]

\* a mode that is always host when the check sets none, whatever the
\* service's address: what address must not choose
AddressModeHostOnly(qc, q) ==
    IF q.AddressMode # "" THEN q.AddressMode ELSE "host"

\* address: the mode handed to GetAddress
AddressMode(qc, q) ==
    IF q.AddressMode # "" THEN q.AddressMode
    ELSE IF qc.CustomAddress # "" THEN "auto" ELSE "host"

\* a label that is the service's whenever the service has one: what address
\* must not choose
PortLabelServiceFirst(qc, q) ==
    IF qc.ServicePortLabel # "" THEN qc.ServicePortLabel ELSE q.PortLabel

\* address: the port label handed to GetAddress
PortLabel(qc, q) ==
    IF q.PortLabel # "" THEN q.PortLabel ELSE qc.ServicePortLabel

\* address(qc, q): one call of GetAddress, and host:port when the port it
\* returns is above 0
address(qc, q, env) ==
    LET get == Call("GetAddress", qc.CustomAddress, AddressMode(qc, q),
                    PortLabel(qc, q))
    IN  IF env.resolve.err # ""
        THEN [addr |-> "", err |-> env.resolve.err, made |-> <<get>>]
        ELSE [addr |-> IF env.resolve.port > 0
                       THEN JoinHostPort(env.resolve.addr, Itoa(env.resolve.port))
                       ELSE env.resolve.addr,
              err |-> "", made |-> <<get>>]

\* a checkTCP that asks for the address again when the resolution failed,
\* and dials what it gets: what checkTCP must not be
checkTCPRetrying(qc, q, env, now) ==
    LET qr == [ID |-> "", Kind |-> q.Kind, Timestamp |-> now,
               Status |-> CheckSuccess, Output |-> ""]
        r == address(qc, q, env)
        dial == Call("Dial", "tcp", r.addr, "")
    IN  IF env.dial # ""
        THEN [qr |-> [qr EXCEPT !.Output = env.dial, !.Status = CheckFailure],
              made |-> r.made \o (IF r.err # "" THEN r.made ELSE <<>>) \o <<dial>>]
        ELSE [qr |-> [qr EXCEPT !.Output = "nomad: ok"],
              made |-> r.made \o (IF r.err # "" THEN r.made ELSE <<>>) \o <<dial>>]

\* checker.checkTCP(qc, q)
checkTCP(qc, q, env, now) ==
    LET qr == [ID |-> "", Kind |-> q.Kind, Timestamp |-> now,
               Status |-> CheckSuccess, Output |-> ""]
        r == address(qc, q, env)
        dial == Call("Dial", "tcp", r.addr, "")
    IN  IF r.err # ""
        THEN [qr |-> [qr EXCEPT !.Output = r.err, !.Status = CheckFailure],
              made |-> r.made]
        ELSE IF env.dial # ""
        THEN [qr |-> [qr EXCEPT !.Output = env.dial, !.Status = CheckFailure],
              made |-> Append(r.made, dial)]
        ELSE [qr |-> [qr EXCEPT !.Output = "nomad: ok"],
              made |-> Append(r.made, dial)]

\* a checkHTTP that returns before the status code is looked at when the
\* body cannot be read: what checkHTTP must not be
checkHTTPReadErrorFails(qc, q, env, now) ==
    LET qr == [ID |-> "", Kind |-> q.Kind, Timestamp |-> now,
               Status |-> CheckPending, Output |-> ""]
        r == address(qc, q, env)
        u == URLString(q.Protocol, r.addr, q.Path)
        new == Call("NewRequest", q.Method, u, "")
        do == Call("Do", q.Method, u, "")
        read == Call("ReadAll", "", "", "")
    IN  IF r.err # ""
        THEN [qr |-> [qr EXCEPT !.Output = r.err, !.Status = CheckFailure],
              made |-> r.made]
        ELSE IF env.http.requestErr # ""
        THEN [qr |-> [qr EXCEPT !.Output = "nomad: " \o env.http.requestErr,
                                !.Status = CheckFailure],
              made |-> Append(r.made, new)]
        ELSE IF env.http.transportErr # ""
        THEN [qr |-> [qr EXCEPT !.Output = "nomad: " \o env.http.transportErr,
                                !.Status = CheckFailure],
              made |-> r.made \o <<new, do>>]
        ELSE IF env.http.readErr # ""
        THEN [qr |-> [qr EXCEPT !.Output = "nomad: " \o env.http.readErr,
                                !.Status = CheckFailure],
              made |-> r.made \o <<new, do, read>>]
        ELSE [qr |-> [qr EXCEPT !.Output = env.http.body,
                                !.Status = IF env.http.code < 400
                                           THEN CheckSuccess ELSE CheckFailure],
              made |-> r.made \o <<new, do, read>>]

\* checker.checkHTTP(qc, q)
checkHTTP(qc, q, env, now) ==
    LET qr == [ID |-> "", Kind |-> q.Kind, Timestamp |-> now,
               Status |-> CheckPending, Output |-> ""]
        r == address(qc, q, env)
        u == URLString(q.Protocol, r.addr, q.Path)
        new == Call("NewRequest", q.Method, u, "")
        do == Call("Do", q.Method, u, "")
        read == Call("ReadAll", "", "", "")
    IN  IF r.err # ""
        THEN [qr |-> [qr EXCEPT !.Output = r.err, !.Status = CheckFailure],
              made |-> r.made]
        ELSE IF env.http.requestErr # ""
        THEN [qr |-> [qr EXCEPT !.Output = "nomad: " \o env.http.requestErr,
                                !.Status = CheckFailure],
              made |-> Append(r.made, new)]
        ELSE IF env.http.transportErr # ""
        THEN [qr |-> [qr EXCEPT !.Output = "nomad: " \o env.http.transportErr,
                                !.Status = CheckFailure],
              made |-> r.made \o <<new, do>>]
        ELSE [qr |-> [qr EXCEPT !.Output = IF env.http.readErr # ""
                                           THEN "nomad: " \o env.http.readErr
                                           ELSE env.http.body,
                                !.Status = IF env.http.code < 400
                                           THEN CheckSuccess ELSE CheckFailure],
              made |-> r.made \o <<new, do, read>>]

\* a Do that makes a TCP probe of the type tcp only: what Do must not be
DoHTTPByDefault(qc, q, env, now) ==
    LET r == IF q.Type = "tcp" THEN checkTCP(qc, q, env, now)
             ELSE checkHTTP(qc, q, env, now)
    IN  [r EXCEPT !.qr.ID = qc.ID]

\* checker.Do(qc, q): an HTTP probe of the type http, a TCP probe of any
\* other, and the id of the query context in the result
Do(qc, q, env, now) ==
    LET r == IF q.Type = "http" THEN checkHTTP(qc, q, env, now)
             ELSE checkTCP(qc, q, env, now)
    IN  [r EXCEPT !.qr.ID = qc.ID]

\* the queries and query contexts the checker is given
Queries ==
    [Kind : {Healthiness}, Type : {"http", "tcp", "", "script"},
     AddressMode : {"", "alloc"}, PortLabel : {"", "chk"},
     Protocol : {"http"}, Path : {"/health"}, Method : {"GET"}]

QueryContexts ==
    [ID : {MakeCheckID(AllocID, TaskGroup, "", "n1")},
     CustomAddress : {"", "192.0.2.7"}, ServicePortLabel : {"", "svc"}]

\* what GetAddress returns: an error, or an address with a port or without
Resolutions ==
    {[addr |-> "", port |-> 0, err |-> "invalid port: port label not found"]}
        \cup [addr : {"10.0.0.5", "::1"}, port : {0, 8080}, err : {""}]

\* what net.Dial returns
Dials == {"", "dial tcp: connection refused"}

\* the bodies of the responses: none, a short one, one of the size of the
\* cap and one a byte longer
Bodies == {"", "ok", Repeat("x", OutputSizeCap), Repeat("x", OutputSizeCap + 1)}

\* what the HTTP libraries return: the request cannot be built, it cannot
\* be sent, or a response comes whose body can be read or not
HTTPs ==
    {[requestErr |-> "net/http: invalid method", transportErr |-> "",
      code |-> 0, body |-> "", readErr |-> ""],
     [requestErr |-> "", transportErr |-> "context deadline exceeded",
      code |-> 0, body |-> "", readErr |-> ""]}
        \cup [requestErr : {""}, transportErr : {""},
              code : {200, 399, 400, 503}, body : Bodies,
              readErr : {"", "unexpected EOF"}]

Environments == [resolve : Resolutions, dial : Dials, http : HTTPs]

(***************************************************************************)
(* allocrunner: observers and the checks hook.                             *)
(*                                                                         *)
(* An observer is a record: check (its copy of the definition), allocID,   *)
(* qc, cancelled (its own cancel was called), starts (how many times its   *)
(* start was launched with go) and pc, where its goroutine is: "new"       *)
(* (start was never launched), "wait" (in the select), "probe" (between    *)
(* the timer case and the return of shim.Set) or "exit".                   *)
(***************************************************************************)
\* an observer whose context is made from context.Background() instead of
\* h.ctx, so that only its own cancel ends it: what observe must not do
CtxDoneOwnOnly(o, ctx) == o.cancelled

\* <-o.ctx.Done() is ready: the observer's context, a child of h.ctx, is
\* cancelled by its own cancel or by its parent's
CtxDone(o, ctx) == o.cancelled \/ ctx = "done"

\* the state observe works on
HookState(obs, cur, d) ==
    [observers |-> obs, current |-> cur, db |-> d, panic |-> ""]

\* an observe that launches start without setting the pending stub: what
\* observe must not be
ObserveCheckWithoutStub(st, h, id, check, ok, now) ==
    LET o == [check |-> check, allocID |-> AllocID, qc |-> [ID |-> id],
              cancelled |-> FALSE, starts |-> 1, pc |-> "wait"]
    IN  [observers |-> MapPut(st.observers, id, o),
         current |-> st.current,
         db |-> st.db,
         panic |-> ""]

\* the observer observe creates for a check and the state it leaves: the
\* pending stub is set and, unless that fails, start is launched
ObserveCheck(st, h, id, check, ok, now) ==
    LET o == [check |-> check, allocID |-> AllocID, qc |-> [ID |-> id],
              cancelled |-> FALSE, starts |-> IF ok THEN 1 ELSE 0,
              pc |-> IF ok THEN "wait" ELSE "new"]
        result == Stub(id, GetCheckMode(check), now)
    IN  [observers |-> MapPut(st.observers, id, o),
         current |-> ShimSet(st.current, AllocID, result),
         db |-> PutCheckResult(st.db, AllocID, result, ok),
         panic |-> ""]

\* an observe that launches start again on an observer it finds in the map:
\* what observe must not be
ObserveExistingRelaunching(st, id) ==
    [st EXCEPT !.observers[id].starts = @ + 1]

\* observe finds an observer under the id: continue, nothing is done
ObserveExisting(st, id) == st

RECURSIVE observe(_, _, _, _, _, _, _)
\* checksHook.observe(alloc, services) from the i-th (service, check) pair
\* on; ok tells whether the db stores the stubs of this call
observe(st, h, alloc, pairs, i, ok, now) ==
    IF i > Len(pairs) \/ st.panic # "" THEN st
    ELSE LET check == pairs[i].check
             id == MakeCheckID(alloc.ID, alloc.TaskGroup, check.TaskName, check.Name)
         IN  IF id \in DOMAIN st.observers
             THEN observe(ObserveExisting(st, id), h, alloc, pairs, i + 1, ok, now)
             ELSE IF h.ctx = "nil"
             THEN [st EXCEPT !.panic = "cannot create context from nil parent"]
             ELSE observe(ObserveCheck(st, h, id, check, ok, now),
                          h, alloc, pairs, i + 1, ok, now)

\* newChecksHook(alloc) with initialize(alloc): the context and the observer
\* map are made only when the task group is found
newChecksHook(alloc) ==
    [ctx |-> IF alloc.Found THEN "live" ELSE "nil", alloc |-> alloc]

\* the ids Update wants to keep
NextIDs(alloc) ==
    LET pairs == ServiceChecksOf(alloc.Services)
    IN  {MakeCheckID(alloc.ID, alloc.TaskGroup, pairs[i].service.TaskName,
                     pairs[i].check.Name) : i \in DOMAIN pairs}

\* the observers stop() was called on whose goroutine is still running
Stopped(obs, remove) ==
    LET running == {id \in remove : obs[id].pc \in {"wait", "probe"}}
        stopped(id) == [obs[id] EXCEPT !.cancelled = TRUE]
        RECURSIVE bag(_)
        bag(ids) ==
            IF ids = {} THEN EmptyBag
            ELSE LET id == CHOOSE x \in ids : TRUE
                 IN  SetToBag({stopped(id)}) (+) bag(ids \ {id})
    IN  bag(running)

\* Prerun between h.lock.Lock() and the deferred h.lock.Unlock()
PrerunLocked(okSet, now) ==
    /\ panicked = ""
    /\ hook.ctx # "done"
    /\ IF ~hook.alloc.Found
       THEN UNCHANGED <<current, db, observers, panicked>>
       ELSE LET st == observe(HookState(observers, current, db), hook, hook.alloc,
                              ServiceChecksOf(hook.alloc.Services), 1, okSet, now)
            IN  /\ observers' = st.observers
                /\ current' = st.current
                /\ db' = st.db
                /\ panicked' = st.panic
    /\ okSet \/ DOMAIN observers' # DOMAIN observers
    /\ okSet \/ failures < MaxFailures
    /\ failures' = failures + (IF okSet THEN 0 ELSE 1)
    /\ UNCHANGED <<hook, orphans, ret, pureVars, aliasVars>>

\* checksHook.Prerun, from its entry to its return
Prerun(okSet, now) == PrerunLocked(okSet, now) /\ UNCHANGED lockVars

\* an Update that does not return when the task group is not in the job:
\* what Update must not be
UpdateIgnoringGroup(request, okRemove, okSet, now) ==
    /\ panicked = ""
    /\ hook.ctx # "done"
    /\ IF FALSE
       THEN /\ okRemove /\ okSet
            /\ UNCHANGED <<hook, current, db, observers, orphans, panicked>>
       ELSE LET remove == ShimUnwanted(current, request.ID, NextIDs(request))
            IN  IF ~(remove \subseteq DOMAIN observers)
                THEN /\ okRemove /\ okSet
                     /\ panicked' = "nil pointer dereference"
                     /\ UNCHANGED <<hook, current, db, observers, orphans>>
                ELSE LET obs == MapDelete(observers, remove)
                         cur == ShimRemove(current, request.ID, remove)
                         d == DeleteCheckResults(db, request.ID, remove, okRemove)
                         st == observe(HookState(obs, cur, d), hook, request,
                                       ServiceChecksOf(request.Services), 1,
                                       okSet, now)
                     IN  /\ orphans' = orphans (+) Stopped(observers, remove)
                         /\ BagCardinality(orphans') <= MaxOrphans
                         /\ IF ~okRemove
                            THEN /\ observers' = obs
                                 /\ current' = cur
                                 /\ db' = d
                                 /\ UNCHANGED <<hook, panicked>>
                            ELSE /\ hook' = [hook EXCEPT !.alloc = request]
                                 /\ observers' = st.observers
                                 /\ current' = st.current
                                 /\ db' = st.db
                                 /\ panicked' = st.panic
                                 /\ okSet \/ DOMAIN st.observers # DOMAIN obs
    /\ okRemove \/ okSet
    /\ (okRemove /\ okSet) \/ failures < MaxFailures
    /\ failures' = failures + (IF okRemove /\ okSet THEN 0 ELSE 1)
    /\ UNCHANGED <<ret, pureVars, aliasVars, lockVars>>

\* an Update that goes on when shim.Remove returns an error, adopting the
\* allocation and observing its checks: what Update must not be
UpdateIgnoringRemoveError(request, okRemove, okSet, now) ==
    /\ panicked = ""
    /\ hook.ctx # "done"
    /\ IF ~request.Found
       THEN /\ okRemove /\ okSet
            /\ UNCHANGED <<hook, current, db, observers, orphans, panicked>>
       ELSE LET remove == ShimUnwanted(current, request.ID, NextIDs(request))
            IN  IF ~(remove \subseteq DOMAIN observers)
                THEN /\ okRemove /\ okSet
                     /\ panicked' = "nil pointer dereference"
                     /\ UNCHANGED <<hook, current, db, observers, orphans>>
                ELSE LET obs == MapDelete(observers, remove)
                         cur == ShimRemove(current, request.ID, remove)
                         d == DeleteCheckResults(db, request.ID, remove, okRemove)
                         st == observe(HookState(obs, cur, d), hook, request,
                                       ServiceChecksOf(request.Services), 1,
                                       okSet, now)
                     IN  /\ orphans' = orphans (+) Stopped(observers, remove)
                         /\ BagCardinality(orphans') <= MaxOrphans
                         /\ IF FALSE
                            THEN /\ observers' = obs
                                 /\ current' = cur
                                 /\ db' = d
                                 /\ UNCHANGED <<hook, panicked>>
                            ELSE /\ hook' = [hook EXCEPT !.alloc = request]
                                 /\ observers' = st.observers
                                 /\ current' = st.current
                                 /\ db' = st.db
                                 /\ panicked' = st.panic
                                 /\ okSet \/ DOMAIN st.observers # DOMAIN obs
    /\ okRemove \/ okSet
    /\ (okRemove /\ okSet) \/ failures < MaxFailures
    /\ failures' = failures + (IF okRemove /\ okSet THEN 0 ELSE 1)
    /\ UNCHANGED <<ret, pureVars, aliasVars, lockVars>>

\* Update between h.lock.Lock() and the deferred h.lock.Unlock()
UpdateLocked(request, okRemove, okSet, now) ==
    /\ panicked = ""
    /\ hook.ctx # "done"
    /\ IF ~request.Found
       THEN /\ okRemove /\ okSet
            /\ UNCHANGED <<hook, current, db, observers, orphans, panicked>>
       ELSE LET remove == ShimUnwanted(current, request.ID, NextIDs(request))
            IN  IF ~(remove \subseteq DOMAIN observers)
                THEN /\ okRemove /\ okSet
                     /\ panicked' = "nil pointer dereference"
                     /\ UNCHANGED <<hook, current, db, observers, orphans>>
                ELSE LET obs == MapDelete(observers, remove)
                         cur == ShimRemove(current, request.ID, remove)
                         d == DeleteCheckResults(db, request.ID, remove, okRemove)
                         st == observe(HookState(obs, cur, d), hook, request,
                                       ServiceChecksOf(request.Services), 1,
                                       okSet, now)
                     IN  /\ orphans' = orphans (+) Stopped(observers, remove)
                         /\ BagCardinality(orphans') <= MaxOrphans
                         /\ IF ~okRemove
                            THEN /\ observers' = obs
                                 /\ current' = cur
                                 /\ db' = d
                                 /\ UNCHANGED <<hook, panicked>>
                            ELSE /\ hook' = [hook EXCEPT !.alloc = request]
                                 /\ observers' = st.observers
                                 /\ current' = st.current
                                 /\ db' = st.db
                                 /\ panicked' = st.panic
                                 /\ okSet \/ DOMAIN st.observers # DOMAIN obs
    /\ okRemove \/ okSet
    /\ (okRemove /\ okSet) \/ failures < MaxFailures
    /\ failures' = failures + (IF okRemove /\ okSet THEN 0 ELSE 1)
    /\ UNCHANGED <<ret, pureVars, aliasVars>>

\* checksHook.Update, from its entry to its return
Update(request, okRemove, okSet, now) ==
    UpdateLocked(request, okRemove, okSet, now) /\ UNCHANGED lockVars

\* a PreKill whose stop panics on a context that is cancelled already, as
\* closing a closed channel would: what PreKill must not be
PreKillPanickingTwice(ok) ==
    /\ panicked = ""
    /\ IF hook.ctx \in {"nil", "done"}
       THEN /\ ok
            /\ panicked' = "nil pointer dereference"
            /\ UNCHANGED <<hook, current, db>>
       ELSE /\ hook' = [hook EXCEPT !.ctx = "done"]
            /\ current' = ShimPurge(current, AllocID)
            /\ db' = PurgeCheckResults(db, AllocID, ok)
            /\ UNCHANGED panicked
    /\ ok \/ failures < MaxFailures
    /\ failures' = failures + (IF ok THEN 0 ELSE 1)
    /\ UNCHANGED <<observers, orphans, ret, pureVars, aliasVars, lockVars>>

\* PreKill between h.lock.Lock() and the deferred h.lock.Unlock()
PreKillLocked(ok) ==
    /\ panicked = ""
    /\ IF hook.ctx = "nil"
       THEN /\ ok
            /\ panicked' = "nil pointer dereference"
            /\ UNCHANGED <<hook, current, db>>
       ELSE /\ hook' = [hook EXCEPT !.ctx = "done"]
            /\ current' = ShimPurge(current, AllocID)
            /\ db' = PurgeCheckResults(db, AllocID, ok)
            /\ UNCHANGED panicked
    /\ ok \/ failures < MaxFailures
    /\ failures' = failures + (IF ok THEN 0 ELSE 1)
    /\ UNCHANGED <<observers, orphans, ret, pureVars, aliasVars>>

\* checksHook.PreKill, from its entry to its return
PreKill(ok) == PreKillLocked(ok) /\ UNCHANGED lockVars

(***************************************************************************)
(* observer.start: the goroutine of an observer. The select takes the      *)
(* timer case when the timer has fired and the Done case when the context  *)
(* is cancelled, and either of them when both are ready.                   *)
(***************************************************************************)
\* case <-timer.C: the check is executed
StartTimer(o) == [o EXCEPT !.pc = "probe"]

\* result := o.checker.Do(o.qc, query)
StartResult(o, status, now) ==
    CheckerDo(o.qc, GetCheckQuery(o.check), status, now)

\* a Set made under another allocation than the observer's own: what start
\* must not do
StartSetOfOtherAlloc(cur, o, result) == ShimSet(cur, OtherAllocID, result)

\* the store after _ = o.shim.Set(o.allocID, result)
StartSet(cur, o, result) == ShimSet(cur, o.allocID, result)

\* a start that returns after an execution instead of arming its timer
\* again: what start must not be
StartResetReturning(o) == [o EXCEPT !.pc = "exit"]

\* timer.Reset(o.check.Interval), back to the select
StartReset(o) == [o EXCEPT !.pc = "wait"]

\* firstWait := o.check.Interval / 2, what the timer is made with
FirstWait(o) == o.check.Interval \div 2

\* what timer.Reset(o.check.Interval) arms the timer with
ResetWait(o) == o.check.Interval

\* case <-o.ctx.Done(): return
StartReturn(o) == [o EXCEPT !.pc = "exit"]

\* a start that takes h.lock when its timer fires and executes the check
\* holding it: what start must not be
ObserverTimerHoldingLock(id) ==
    /\ panicked = ""
    /\ id \in DOMAIN observers
    /\ observers[id].pc = "wait"
    /\ CanLock(lock)
    /\ lock' = [lock EXCEPT !.writer = id]
    /\ observers' = [observers EXCEPT ![id] = StartTimer(@)]
    /\ UNCHANGED <<hook, orphans, panicked, calls, storeVars, pureVars, aliasVars>>

ObserverTimer(id) ==
    /\ panicked = ""
    /\ id \in DOMAIN observers
    /\ observers[id].pc = "wait"
    /\ observers' = [observers EXCEPT ![id] = StartTimer(@)]
    /\ UNCHANGED <<hook, orphans, panicked, storeVars, pureVars, aliasVars, lockVars>>

ObserverSet(id, status, now, ok) ==
    /\ panicked = ""
    /\ id \in DOMAIN observers
    /\ observers[id].pc = "probe"
    /\ LET o == observers[id]
           result == StartResult(o, status, now)
       IN  /\ current' = StartSet(current, o, result)
           /\ db' = PutCheckResult(db, o.allocID, result, ok)
    /\ observers' = [observers EXCEPT ![id] = StartReset(@)]
    /\ ok \/ failures < MaxFailures
    /\ failures' = failures + (IF ok THEN 0 ELSE 1)
    /\ UNCHANGED <<hook, orphans, panicked, ret, pureVars, aliasVars, lockVars>>

ObserverReturn(id) ==
    /\ panicked = ""
    /\ id \in DOMAIN observers
    /\ observers[id].pc = "wait"
    /\ CtxDone(observers[id], hook.ctx)
    /\ observers' = [observers EXCEPT ![id] = StartReturn(@)]
    /\ UNCHANGED <<hook, orphans, panicked, storeVars, pureVars, aliasVars, lockVars>>

\* the same three steps for an observer that Update has stopped and deleted
OrphanTimer(o) ==
    /\ panicked = ""
    /\ BagIn(o, orphans)
    /\ o.pc = "wait"
    /\ orphans' = (orphans (-) SetToBag({o})) (+) SetToBag({StartTimer(o)})
    /\ UNCHANGED <<hook, observers, panicked, storeVars, pureVars, aliasVars, lockVars>>

OrphanSet(o, status, now, ok) ==
    /\ panicked = ""
    /\ BagIn(o, orphans)
    /\ o.pc = "probe"
    /\ LET result == StartResult(o, status, now)
       IN  /\ current' = StartSet(current, o, result)
           /\ db' = PutCheckResult(db, o.allocID, result, ok)
    /\ orphans' = (orphans (-) SetToBag({o})) (+) SetToBag({StartReset(o)})
    /\ ok \/ failures < MaxFailures
    /\ failures' = failures + (IF ok THEN 0 ELSE 1)
    /\ UNCHANGED <<hook, observers, panicked, ret, pureVars, aliasVars, lockVars>>

OrphanReturn(o) ==
    /\ panicked = ""
    /\ BagIn(o, orphans)
    /\ o.pc = "wait"
    /\ CtxDone(o, hook.ctx)
    /\ orphans' = orphans (-) SetToBag({o})
    /\ UNCHANGED <<hook, observers, panicked, storeVars, pureVars, aliasVars, lockVars>>

(***************************************************************************)
(* Spec: a hook built for any allocation, its lifecycle calls in any       *)
(* order (each holds h.lock from entry to return) and its goroutines.      *)
(***************************************************************************)
Init ==
    /\ hook \in {newChecksHook(alloc) : alloc \in Allocations}
    /\ observers = EmptyMap
    /\ orphans = EmptyBag
    /\ panicked = ""
    /\ failures = 0
    /\ objects = EmptyMap
    /\ pointers = EmptyMap
    /\ listed = NoListed
    /\ lock = Unlocked
    /\ calls = NoCalls
    /\ current = NewStore
    /\ db = EmptyDb
    /\ ret = NoRet
    /\ pin = <<>>
    /\ pout = NoIDs

Statuses == {CheckSuccess, CheckFailure}

Next ==
    \/ \E okSet \in BOOLEAN, now \in Times : Prerun(okSet, now)
    \/ \E request \in Allocations, okRemove \in BOOLEAN, okSet \in BOOLEAN,
          now \in Times : Update(request, okRemove, okSet, now)
    \/ \E ok \in BOOLEAN : PreKill(ok)
    \/ \E id \in DOMAIN observers : ObserverTimer(id)
    \/ \E id \in DOMAIN observers, status \in Statuses, now \in Times,
          ok \in BOOLEAN : ObserverSet(id, status, now, ok)
    \/ \E id \in DOMAIN observers : ObserverReturn(id)
    \/ \E o \in BagToSet(orphans) : OrphanTimer(o)
    \/ \E o \in BagToSet(orphans), status \in Statuses, now \in Times,
          ok \in BOOLEAN : OrphanSet(o, status, now, ok)
    \/ \E o \in BagToSet(orphans) : OrphanReturn(o)

Spec == Init /\ [][Next]_vars

\* every check id a job of the model can give a check
HookCheckIDs == {MakeCheckID(AllocID, TaskGroup, t, n) : t \in Tasks, n \in Names}

\* SpecLive: Spec with the scheduling the Go runtime gives the goroutines. A
\* probe in flight returns and its Set is made; a select whose Done case is
\* ready again and again takes it in the end, since select chooses among
\* the ready cases at random.
Fairness ==
    /\ \A id \in HookCheckIDs :
          /\ WF_vars(\E status \in Statuses, now \in Times, ok \in BOOLEAN :
                        ObserverSet(id, status, now, ok))
          /\ SF_vars(ObserverReturn(id))
    /\ WF_vars(\E o \in BagToSet(orphans), status \in Statuses, now \in Times,
                  ok \in BOOLEAN : OrphanSet(o, status, now, ok))
    /\ SF_vars(\E o \in BagToSet(orphans) : OrphanReturn(o))

SpecLive == Init /\ [][Next]_vars /\ Fairness

(***************************************************************************)
(* SpecHookLock: the hook with h.lock, a sync.RWMutex, in the state. A     *)
(* lifecycle call takes the lock, then runs to its return, where the       *)
(* deferred Unlock frees it; the goroutines of the observers run as in     *)
(* Spec, between these steps too. The db never fails here.                 *)
(***************************************************************************)
HookMethods == {"Prerun", "Update", "PreKill"}

\* h.lock.Lock() at the entry of method m
HookLock(m) ==
    /\ panicked = ""
    /\ m # "PreKill" => hook.ctx # "done"
    /\ CanLock(lock)
    /\ lock' = [lock EXCEPT !.writer = m]
    /\ UNCHANGED <<calls, storeVars, hookVars, pureVars, aliasVars>>

\* the rest of Prerun, to the deferred h.lock.Unlock()
HookPrerun(okSet, now) ==
    /\ lock.writer = "Prerun"
    /\ PrerunLocked(okSet, now)
    /\ lock' = Unlocked
    /\ UNCHANGED calls

\* the rest of Update, to the deferred h.lock.Unlock()
HookUpdate(request, okRemove, okSet, now) ==
    /\ lock.writer = "Update"
    /\ UpdateLocked(request, okRemove, okSet, now)
    /\ lock' = Unlocked
    /\ UNCHANGED calls

\* the rest of PreKill, to the deferred h.lock.Unlock()
HookPreKill(ok) ==
    /\ lock.writer = "PreKill"
    /\ PreKillLocked(ok)
    /\ lock' = Unlocked
    /\ UNCHANGED calls

NextHookLock ==
    \/ \E m \in HookMethods : HookLock(m)
    \/ \E now \in Times : HookPrerun(TRUE, now)
    \/ \E request \in Allocations, now \in Times : HookUpdate(request, TRUE, TRUE, now)
    \/ HookPreKill(TRUE)
    \/ \E id \in DOMAIN observers : ObserverTimer(id)
    \/ \E id \in DOMAIN observers, status \in Statuses, now \in Times :
          ObserverSet(id, status, now, TRUE)
    \/ \E id \in DOMAIN observers : ObserverReturn(id)
    \/ \E o \in BagToSet(orphans) : OrphanTimer(o)
    \/ \E o \in BagToSet(orphans), status \in Statuses, now \in Times :
          OrphanSet(o, status, now, TRUE)
    \/ \E o \in BagToSet(orphans) : OrphanReturn(o)

SpecHookLock == Init /\ [][NextHookLock]_vars

(***************************************************************************)
(* SpecLoop: the loop of one observer with its timer. The hook is built    *)
(* for an allocation with one check; Prerun observes it, the goroutine     *)
(* makes its timer, and then waits, executes and arms the timer again      *)
(* until its context is cancelled, which PreKill does. pout holds the      *)
(* timer: the duration it was last armed with, and the executions made.    *)
(***************************************************************************)
\* timer, cancel := helper.NewSafeTimer(firstWait)
LoopStart(id) ==
    /\ id \in DOMAIN observers
    /\ observers[id].pc = "wait"
    /\ pout = NoIDs
    /\ pout' = [fn |-> "timer", id |-> id, armed |-> FirstWait(observers[id]),
                runs |-> 0]
    /\ UNCHANGED <<pin, storeVars, hookVars, aliasVars, lockVars>>

\* case <-timer.C
LoopTimer(id) ==
    /\ pout.fn = "timer"
    /\ pout.id = id
    /\ ObserverTimer(id)

\* the execution, the Set of its result and timer.Reset(o.check.Interval)
LoopSet(id, status, now, ok) ==
    /\ pout.fn = "timer"
    /\ pout.id = id
    /\ id \in DOMAIN observers
    /\ observers[id].pc = "probe"
    /\ LET o == observers[id]
           result == StartResult(o, status, now)
       IN  /\ current' = StartSet(current, o, result)
           /\ db' = PutCheckResult(db, o.allocID, result, ok)
           /\ pout' = [pout EXCEPT !.armed = ResetWait(o),
                                   !.runs = IF @ < MaxRuns THEN @ + 1 ELSE @]
    /\ observers' = [observers EXCEPT ![id] = StartReset(@)]
    /\ ok \/ failures < MaxFailures
    /\ failures' = failures + (IF ok THEN 0 ELSE 1)
    /\ UNCHANGED <<hook, orphans, panicked, ret, pin, aliasVars, lockVars>>

\* case <-o.ctx.Done(): return
LoopReturn(id) ==
    /\ pout.fn = "timer"
    /\ pout.id = id
    /\ ObserverReturn(id)

InitLoop ==
    /\ hook \in {newChecksHook(alloc) :
                    alloc \in {a \in Allocations : Len(a.Services) = 1}}
    /\ observers = EmptyMap
    /\ orphans = EmptyBag
    /\ panicked = ""
    /\ failures = 0
    /\ objects = EmptyMap
    /\ pointers = EmptyMap
    /\ listed = NoListed
    /\ lock = Unlocked
    /\ calls = NoCalls
    /\ current = NewStore
    /\ db = EmptyDb
    /\ ret = NoRet
    /\ pin = <<>>
    /\ pout = NoIDs

NextLoop ==
    \/ \E okSet \in BOOLEAN, now \in Times : Prerun(okSet, now)
    \/ \E id \in DOMAIN observers : LoopStart(id)
    \/ \E id \in DOMAIN observers : LoopTimer(id)
    \/ \E id \in DOMAIN observers, status \in Statuses, now \in Times,
          ok \in BOOLEAN : LoopSet(id, status, now, ok)
    \/ \E id \in DOMAIN observers : LoopReturn(id)
    \/ \E ok \in BOOLEAN : PreKill(ok)

\* the goroutine runs, its timer fires, a probe in flight returns, and a
\* select whose Done case is ready again and again takes it in the end
LoopFairness ==
    \A id \in HookCheckIDs :
        /\ WF_vars(LoopStart(id))
        /\ WF_vars(LoopTimer(id))
        /\ WF_vars(\E status \in Statuses, now \in Times, ok \in BOOLEAN :
                      LoopSet(id, status, now, ok))
        /\ SF_vars(LoopReturn(id))

SpecLoop == InitLoop /\ [][NextLoop]_vars /\ LoopFairness

(***************************************************************************)
(* The checks hook before newChecksHook has run, for the specifications    *)
(* that do not run it.                                                     *)
(***************************************************************************)
NoHook == [ctx |-> "none", alloc |-> GrouplessAlloc]

InitStore ==
    /\ current = NewStore
    /\ db = EmptyDb
    /\ ret = NoRet
    /\ hook = NoHook
    /\ observers = EmptyMap
    /\ orphans = EmptyBag
    /\ panicked = ""
    /\ failures = 0
    /\ objects = EmptyMap
    /\ pointers = EmptyMap
    /\ listed = NoListed
    /\ lock = Unlocked
    /\ calls = NoCalls
    /\ pin = <<>>
    /\ pout = NoIDs

SpecStore == InitStore /\ [][NextStore]_vars

\* SpecStoreOk: a new store over an empty db, its Set, Keep and Purge called
\* in any order with results that have an id, and a db that fails no call
NextStoreOk ==
    \/ \E a \in AllocIDs : \E qr \in CallerResults(a) : StoreSet(a, qr, TRUE)
    \/ \E a \in AllocIDs : \E ids \in SUBSET GroupCheckIDs(a) :
         StoreKeep(a, ids, TRUE)
    \/ \E a \in AllocIDs : StorePurge(a, TRUE)

SpecStoreOk == InitStore /\ [][NextStoreOk]_vars

InitCheckID ==
    /\ pin \in CheckPairs
    /\ pout = NoIDs
    /\ current = NewStore
    /\ db = EmptyDb
    /\ ret = NoRet
    /\ hook = NoHook
    /\ observers = EmptyMap
    /\ orphans = EmptyBag
    /\ panicked = ""
    /\ failures = 0
    /\ objects = EmptyMap
    /\ pointers = EmptyMap
    /\ listed = NoListed
    /\ lock = Unlocked
    /\ calls = NoCalls

NextCheckID ==
    \/ DeriveNomadCheckID
    \/ DeriveMakeCheckID

SpecCheckID == InitCheckID /\ [][NextCheckID]_vars

(***************************************************************************)
(* SpecAlias: the shim at the level of Go's pointers. shim.current maps a  *)
(* check id to a *CheckQueryResult; objects holds the value behind each    *)
(* address. The caller of the store makes results, sets them, lists them   *)
(* and writes to what it holds. The caller works on one allocation and     *)
(* lists any; the db never fails here.                                     *)
(***************************************************************************)
\* the results behind a map of pointers
Deref(m, objs) == [id \in DOMAIN m |-> objs[m[id]]]

\* the addresses the store's maps hold
StoreAddrs(ptrs) ==
    UNION {{ptrs[a][id] : id \in DOMAIN ptrs[a]} : a \in DOMAIN ptrs}

\* the addresses the store or the caller can still reach
Reachable(ptrs, lst) == StoreAddrs(ptrs) \cup {lst.m[id] : id \in DOMAIN lst.m}

\* the garbage collector: only reachable objects stay
Collect(objs, ptrs, lst) == [p \in Reachable(ptrs, lst) |-> objs[p]]

\* the address of a newly allocated object: the lowest one not in use
Fresh(used) == CHOOSE p \in 1..(Cardinality(used) + 1) : p \notin used

\* what the store returns for every allocation, as values
StoreView(ptrs, objs) == [a \in DOMAIN ptrs |-> Deref(ptrs[a], objs)]

RECURSIVE CopyMap(_, _, _)
\* helper.CopyMap(m): a map of the same keys whose results are copies of
\* their own; returns the new map and the objects after the allocations
CopyMap(m, objs, used) ==
    IF DOMAIN m = {} THEN [m |-> EmptyMap, objects |-> objs]
    ELSE LET id == CHOOSE x \in DOMAIN m : TRUE
             p == Fresh(used)
             rest == CopyMap(MapDelete(m, {id}), MapPut(objs, p, objs[m[id]]),
                             used \cup {p})
         IN  [m |-> MapPut(rest.m, id, p), objects |-> rest.objects]

\* shim.Set on pointers: s.current[allocID][qr.ID] = qr, qr being address p
PointerSet(ptrs, objs, allocID, p) ==
    LET m == IF allocID \in DOMAIN ptrs THEN ptrs[allocID] ELSE EmptyMap
    IN  MapPut(ptrs, allocID, MapPut(m, objs[p].ID, p))

\* the caller makes a result and sets it
AliasSet(allocID, qr) ==
    /\ panicked = ""
    /\ LET p == Fresh(Reachable(pointers, listed))
           objs == MapPut(objects, p, qr)
       IN  /\ pointers' = PointerSet(pointers, objs, allocID, p)
           /\ objects' = Collect(objs, pointers', listed)
    /\ db' = PutCheckResult(db, allocID, qr, TRUE)
    /\ UNCHANGED <<listed, current, ret, failures, hookVars, pureVars, lockVars>>

\* the caller sets a result it took out of the map List gave it
AliasSetListed(allocID, id) ==
    /\ panicked = ""
    /\ id \in DOMAIN listed.m
    /\ pointers' = PointerSet(pointers, objects, allocID, listed.m[id])
    /\ objects' = Collect(objects, pointers', listed)
    /\ db' = PutCheckResult(db, allocID, objects[listed.m[id]], TRUE)
    /\ UNCHANGED <<listed, current, ret, failures, hookVars, pureVars, lockVars>>

\* shim.List on pointers: nil for an unknown allocation, else CopyMap(m);
\* the caller drops the map it held
AliasList(allocID) ==
    /\ panicked = ""
    /\ IF allocID \in DOMAIN pointers
       THEN LET kept == Collect(objects, pointers, NoListed)
                copy == CopyMap(pointers[allocID], kept, StoreAddrs(pointers))
            IN  /\ listed' = [nil |-> FALSE, m |-> copy.m]
                /\ objects' = copy.objects
       ELSE /\ listed' = NoListed
            /\ objects' = Collect(objects, pointers, NoListed)
    /\ UNCHANGED <<pointers, storeVars, hookVars, pureVars, lockVars>>

\* shim.Keep on pointers
AliasKeep(allocID, ids) ==
    /\ panicked = ""
    /\ pointers' = ShimKeep(pointers, allocID, ids)
    /\ objects' = Collect(objects, pointers', listed)
    /\ db' = DeleteCheckResults(db, allocID, ShimUnwanted(pointers, allocID, ids), TRUE)
    /\ UNCHANGED <<listed, current, ret, failures, hookVars, pureVars, lockVars>>

\* shim.Purge on pointers
AliasPurge(allocID) ==
    /\ panicked = ""
    /\ pointers' = ShimPurge(pointers, allocID)
    /\ objects' = Collect(objects, pointers', listed)
    /\ db' = PurgeCheckResults(db, allocID, TRUE)
    /\ UNCHANGED <<listed, current, ret, failures, hookVars, pureVars, lockVars>>

\* the caller writes the Status of a result in the map it holds
CallerWritesResult(id, status) ==
    /\ panicked = ""
    /\ id \in DOMAIN listed.m
    /\ objects' = [objects EXCEPT ![listed.m[id]].Status = status]
    /\ UNCHANGED <<pointers, listed, storeVars, hookVars, pureVars, lockVars>>

\* the caller deletes a key of the map it holds
CallerDeletesKey(id) ==
    /\ panicked = ""
    /\ id \in DOMAIN listed.m
    /\ listed' = [listed EXCEPT !.m = MapDelete(@, {id})]
    /\ objects' = Collect(objects, pointers, listed')
    /\ UNCHANGED <<pointers, storeVars, hookVars, pureVars, lockVars>>

InitAlias ==
    /\ objects = EmptyMap
    /\ pointers = EmptyMap
    /\ listed = NoListed
    /\ lock = Unlocked
    /\ calls = NoCalls
    /\ current = NewStore
    /\ db = EmptyDb
    /\ ret = NoRet
    /\ hook = NoHook
    /\ observers = EmptyMap
    /\ orphans = EmptyBag
    /\ panicked = ""
    /\ failures = 0
    /\ pin = <<>>
    /\ pout = NoIDs

NextAlias ==
    \/ \E qr \in CallerResults(AllocID) : AliasSet(AllocID, qr)
    \/ \E id \in GroupCheckIDs(AllocID) : AliasSetListed(AllocID, id)
    \/ \E a \in AllocIDs : AliasList(a)
    \/ \E ids \in SUBSET GroupCheckIDs(AllocID) : AliasKeep(AllocID, ids)
    \/ AliasPurge(AllocID)
    \/ \E id \in GroupCheckIDs(AllocID) : CallerWritesResult(id, CheckFailure)
    \/ \E id \in GroupCheckIDs(AllocID) : CallerDeletesKey(id)

SpecAlias == InitAlias /\ [][NextAlias]_vars

(***************************************************************************)
(* SpecLock: shim.Set and shim.List statement by statement, called by      *)
(* goroutines that run at the same time: the observers set results of one  *)
(* allocation, a reader lists them. The db fails at most MaxFailures       *)
(* calls. The results set have an id, so Set does not panic.               *)
(***************************************************************************)
\* Set: s.lock.Lock()
SetLock(g, qr) ==
    /\ calls[g].pc = "idle"
    /\ CanLock(lock)
    /\ lock' = [lock EXCEPT !.writer = g]
    /\ calls' = [calls EXCEPT ![g] = [Idle EXCEPT !.op = "Set", !.pc = "locked",
                                                  !.qr = qr]]
    /\ UNCHANGED <<storeVars, hookVars, pureVars, aliasVars>>

\* Set with s.lock.Unlock() called after the cache write instead of deferred
\* to the return: what shim.Set must not be
SetCacheUnlocking(g) ==
    /\ calls[g].pc = "locked"
    /\ current' = ShimSet(current, AllocID, calls[g].qr)
    /\ lock' = [lock EXCEPT !.writer = ""]
    /\ calls' = [calls EXCEPT ![g].pc = "cached"]
    /\ UNCHANGED <<db, ret, failures, hookVars, pureVars, aliasVars>>

\* Set: s.current[allocID][qr.ID] = qr
SetCache(g) ==
    /\ calls[g].pc = "locked"
    /\ current' = ShimSet(current, AllocID, calls[g].qr)
    /\ calls' = [calls EXCEPT ![g].pc = "cached"]
    /\ UNCHANGED <<db, ret, failures, lock, hookVars, pureVars, aliasVars>>

\* Set: s.db.PutCheckResult(allocID, qr), whose error Set returns
SetDb(g, ok) ==
    /\ calls[g].pc = "cached"
    /\ ok \/ failures < MaxFailures
    /\ db' = PutCheckResult(db, AllocID, calls[g].qr, ok)
    /\ failures' = IF ok THEN failures ELSE failures + 1
    /\ calls' = [calls EXCEPT ![g].pc = "stored", ![g].err = ~ok]
    /\ UNCHANGED <<current, ret, lock, hookVars, pureVars, aliasVars>>

\* Set: the deferred s.lock.Unlock(), and the return
SetUnlock(g) ==
    /\ calls[g].pc = "stored"
    /\ lock' = [lock EXCEPT !.writer = ""]
    /\ calls' = [calls EXCEPT ![g] = Idle]
    /\ UNCHANGED <<storeVars, hookVars, pureVars, aliasVars>>

\* List: s.lock.RLock()
ListRLock(g) ==
    /\ calls[g].pc = "idle"
    /\ CanRLock(lock)
    /\ lock' = [lock EXCEPT !.readers = @ \cup {g}]
    /\ calls' = [calls EXCEPT ![g] = [Idle EXCEPT !.op = "List", !.pc = "rlocked"]]
    /\ UNCHANGED <<storeVars, hookVars, pureVars, aliasVars>>

\* List: m, exists := s.current[allocID] and the copy of m
ListRead(g) ==
    /\ calls[g].pc = "rlocked"
    /\ calls' = [calls EXCEPT ![g].pc = "read",
                              ![g].val = ShimList(current, AllocID)]
    /\ UNCHANGED <<lock, storeVars, hookVars, pureVars, aliasVars>>

\* List: the deferred s.lock.RUnlock(), and the return
ListRUnlock(g) ==
    /\ calls[g].pc = "read"
    /\ lock' = [lock EXCEPT !.readers = @ \ {g}]
    /\ calls' = [calls EXCEPT ![g] = Idle]
    /\ UNCHANGED <<storeVars, hookVars, pureVars, aliasVars>>

InitLock ==
    /\ current = NewStore
    /\ db = EmptyDb
    /\ ret = NoRet
    /\ hook = NoHook
    /\ observers = EmptyMap
    /\ orphans = EmptyBag
    /\ panicked = ""
    /\ failures = 0
    /\ objects = EmptyMap
    /\ pointers = EmptyMap
    /\ listed = NoListed
    /\ lock = Unlocked
    /\ calls = NoCalls
    /\ pin = <<>>
    /\ pout = NoIDs

NextLock ==
    \/ \E g \in Setters : \E qr \in CallerResults(AllocID) : SetLock(g, qr)
    \/ \E g \in Setters : SetCache(g)
    \/ \E g \in Setters, ok \in BOOLEAN : SetDb(g, ok)
    \/ \E g \in Setters : SetUnlock(g)
    \/ \E g \in Listers : ListRLock(g)
    \/ \E g \in Listers : ListRead(g)
    \/ \E g \in Listers : ListRUnlock(g)

SpecLock == InitLock /\ [][NextLock]_vars

(***************************************************************************)
(* SpecChecker: the checker is handed a query, a query context and an      *)
(* environment, runs the probe, and the caller stores the result as the    *)
(* observer does.                                                          *)
(***************************************************************************)
\* result := o.checker.Do(o.qc, query)
RunDo ==
    /\ pout = NoIDs
    /\ \E now \in Times :
          pout' = [fn |-> "Do", r |-> Do(pin.qc, pin.q, pin.env, now)]
    /\ UNCHANGED <<pin, storeVars, hookVars, aliasVars, lockVars>>

\* _ = o.shim.Set(o.allocID, result), the db storing it
RunSet ==
    /\ pout.fn = "Do"
    /\ current' = ShimSet(current, AllocID, pout.r.qr)
    /\ db' = PutCheckResult(db, AllocID, pout.r.qr, TRUE)
    /\ UNCHANGED <<ret, failures, hookVars, pureVars, aliasVars, lockVars>>

InitChecker ==
    /\ pin \in [qc : QueryContexts, q : Queries, env : Environments]
    /\ pout = NoIDs
    /\ current = NewStore
    /\ db = EmptyDb
    /\ ret = NoRet
    /\ hook = NoHook
    /\ observers = EmptyMap
    /\ orphans = EmptyBag
    /\ panicked = ""
    /\ failures = 0
    /\ objects = EmptyMap
    /\ pointers = EmptyMap
    /\ listed = NoListed
    /\ lock = Unlocked
    /\ calls = NoCalls

NextChecker ==
    \/ RunDo
    \/ RunSet

SpecChecker == InitChecker /\ [][NextChecker]_vars

(***************************************************************************)
(* SpecMode: the mode of a check, from its definition to the results the   *)
(* store holds. A check of any update policy is observed as observe does   *)
(* it, and its observer runs the check with the checker; GetCheckMode is   *)
(* also asked about the nil check.                                         *)
(***************************************************************************)
\* the values of on_update, and one that is none of them
OnUpdates == {"", "require_healthy", "ignore_warnings", "ignore", "Ignore"}

ModeChecks ==
    [Name : {"n1"}, TaskName : {""}, Type : {"tcp", "http"}, PortLabel : {""},
     OnUpdate : OnUpdates, AddressMode : {""}, Interval : {1}, Timeout : {1},
     Protocol : {""}, Path : {"/health"}, Method : {"GET"}]

\* structs.GetCheckMode(c)
ModeGet ==
    /\ pout = NoIDs
    /\ pout' = [fn |-> "GetCheckMode", mode |-> GetCheckMode(pin.check)]
    /\ UNCHANGED <<pin, storeVars, hookVars, aliasVars, lockVars>>

\* observe creates the observer of the check and sets its stub
ModeObserve(now) ==
    /\ pin.check # NilCheck
    /\ observers = EmptyMap
    /\ LET id == MakeCheckID(AllocID, TaskGroup, pin.check.TaskName, pin.check.Name)
           st == ObserveCheck(HookState(observers, current, db), hook, id,
                              pin.check, TRUE, now)
       IN  /\ observers' = st.observers
           /\ current' = st.current
           /\ db' = st.db
    /\ UNCHANGED <<hook, orphans, panicked, ret, failures, pureVars, aliasVars,
                   lockVars>>

\* the observer executes the check and sets the result
ModeExecute(id, now) ==
    /\ id \in DOMAIN observers
    /\ LET o == observers[id]
           qc == [ID |-> o.qc.ID, CustomAddress |-> "", ServicePortLabel |-> ""]
           result == Do(qc, GetCheckQuery(o.check), pin.env, now).qr
       IN  /\ current[o.allocID][id] # result
           /\ current' = StartSet(current, o, result)
           /\ db' = PutCheckResult(db, o.allocID, result, TRUE)
    /\ UNCHANGED <<ret, failures, hookVars, pureVars, aliasVars, lockVars>>

InitMode ==
    /\ pin \in [check : ModeChecks \cup {NilCheck}, env : Environments]
    /\ pout = NoIDs
    /\ current = NewStore
    /\ db = EmptyDb
    /\ ret = NoRet
    /\ hook = newChecksHook([GrouplessAlloc EXCEPT !.Found = TRUE])
    /\ observers = EmptyMap
    /\ orphans = EmptyBag
    /\ panicked = ""
    /\ failures = 0
    /\ objects = EmptyMap
    /\ pointers = EmptyMap
    /\ listed = NoListed
    /\ lock = Unlocked
    /\ calls = NoCalls

NextMode ==
    \/ ModeGet
    \/ \E now \in Times : ModeObserve(now)
    \/ \E id \in DOMAIN observers, now \in Times : ModeExecute(id, now)

SpecMode == InitMode /\ [][NextMode]_vars

(***************************************************************************)
(* nomad: the rate limiter of the RPC endpoints. A rate is its number of   *)
(* tokens, or max for math.MaxUint64; a store of go-limiter's memorystore  *)
(* holds the tokens of an interval and what each key took of them in the   *)
(* current one. A *int of the configuration is nil or a value.             *)
(***************************************************************************)
NilInt == [nil |-> TRUE, v |-> 0]

\* helper.IntToPtr(n)
IntToPtr(n) == [nil |-> FALSE, v |-> n]

\* math.MaxUint64 tokens
MaxUint64 == [max |-> TRUE, n |-> 0]

\* uint64(n)
Tokens(n) == [max |-> FALSE, n |-> n]

\* acl.PolicyRead, acl.PolicyWrite and acl.PolicyList
RateOps == {"read", "write", "list"}

\* the accessor ids of the tokens of the callers
Accessors == {"5b0c3e2a", "9f1d7c44"}

ErrTooManyRequests == "rate limit exceeded"

\* newRateLimiterStore(tokens)
newRateLimiterStore(tokens) == [tokens |-> tokens, used |-> EmptyMap]

\* what key has taken from store in the current interval
Used(store, key) == IF key \in DOMAIN store.used THEN store.used[key] ELSE 0

\* store.Take(ctx, key): a token is taken when one is left for the key
Take(store, key) ==
    IF store.tokens.max \/ Used(store, key) < store.tokens.n
    THEN [ok |-> TRUE,
          store |-> [store EXCEPT !.used =
                        MapPut(@, key, IF Used(store, key) < MaxIssued
                                       THEN Used(store, key) + 1
                                       ELSE MaxIssued)]]
    ELSE [ok |-> FALSE, store |-> store]

\* the closure orElse of newEndpointLimiter
orElse(in, defaultVal) ==
    IF in.nil \/ in.v < 1 THEN defaultVal ELSE Tokens(in.v)

\* a nil *config.RPCEndpointLimits
NilEndpointLimits == [nil |-> TRUE]

\* defaultEndpointLimiter(endpoint)
defaultEndpointLimiter(endpoint) ==
    [endpoint |-> endpoint,
     write |-> newRateLimiterStore(MaxUint64),
     read |-> newRateLimiterStore(MaxUint64),
     list |-> newRateLimiterStore(MaxUint64)]

\* newEndpointLimiter(endpoint, limits, defaults)
newEndpointLimiter(endpoint, limits, defaults) ==
    LET write == orElse(defaults.RPCDefaultWriteRate, MaxUint64)
        read == orElse(defaults.RPCDefaultReadRate, MaxUint64)
        list == orElse(defaults.RPCDefaultListRate, MaxUint64)
    IN  IF limits # NilEndpointLimits
        THEN [endpoint |-> endpoint,
              write |-> newRateLimiterStore(orElse(limits.RPCWriteRate, write)),
              read |-> newRateLimiterStore(orElse(limits.RPCReadRate, read)),
              list |-> newRateLimiterStore(orElse(limits.RPCListRate, list))]
        ELSE [endpoint |-> endpoint,
              write |-> newRateLimiterStore(write),
              read |-> newRateLimiterStore(read),
              list |-> newRateLimiterStore(list)]

\* a nil *config.Limits
NilLimits == [nil |-> TRUE]

\* newRateLimiter(shutdownCtx, cfg): the limiters by endpoint
newRateLimiter(cfg) ==
    IF cfg = NilLimits
    THEN [e \in {"Namespace", "Job"} |->
             IF e = "Namespace" THEN defaultEndpointLimiter("namespace")
             ELSE defaultEndpointLimiter("job")]
    ELSE [e \in {"Namespace", "Job"} |->
             IF e = "Namespace" THEN newEndpointLimiter("namespace", cfg.Namespace, cfg)
             ELSE newEndpointLimiter("job", cfg.Job, cfg)]

\* endpointLimiter.check(ctx, op, key): a token is taken from the store of
\* op for key; for an op that is none of the three no store is asked and ok
\* is false
endpointLimiterCheck(r, op, key) ==
    LET none == [ok |-> FALSE, store |-> r.read]
        took == IF op = "write" THEN Take(r.write, key)
                ELSE IF op = "read" THEN Take(r.read, key)
                ELSE IF op = "list" THEN Take(r.list, key)
                ELSE none
    IN  [limiter |-> IF op = "write" THEN [r EXCEPT !.write = took.store]
                     ELSE IF op = "read" THEN [r EXCEPT !.read = took.store]
                     ELSE IF op = "list" THEN [r EXCEPT !.list = took.store]
                     ELSE r,
         err |-> IF ~took.ok THEN ErrTooManyRequests ELSE ""]

\* Server.CheckRateLimit(endpoint, secretID, op) for a secret that resolves
\* to the token of accessorID: check is called with the accessor id where
\* it takes op, and with op where it takes key
CheckRateLimit(limiters, endpoint, accessorID, op) ==
    IF endpoint \notin DOMAIN limiters
    THEN [limiters |-> limiters, err |-> "no such rate limiter"]
    ELSE LET r == endpointLimiterCheck(limiters[endpoint], accessorID, op)
         IN  [limiters |-> [limiters EXCEPT ![endpoint] = r.limiter],
              err |-> r.err]

\* the configurations of the model: none, the rates all unset, a default
\* rate of one for every operation, and rates set for the endpoint
RateConfigs ==
    {NilLimits} \cup
    [RPCDefaultWriteRate : {NilInt, IntToPtr(1)},
     RPCDefaultReadRate : {NilInt, IntToPtr(1)},
     RPCDefaultListRate : {NilInt},
     Namespace : {NilEndpointLimits,
                  [RPCWriteRate |-> IntToPtr(2), RPCReadRate |-> IntToPtr(0),
                   RPCListRate |-> NilInt]},
     Job : {NilEndpointLimits}]

\* the rate the configuration gives op on endpoint
ConfiguredRate(cfg, endpoint, op) ==
    LET r == newRateLimiter(cfg)[endpoint]
    IN  IF op = "write" THEN r.write.tokens
        ELSE IF op = "read" THEN r.read.tokens
        ELSE r.list.tokens

\* no call was made in the current interval
NoneIssued == [c \in Accessors \X RateOps |-> 0]

\* the result of the last call
NoCall == [endpoint |-> "", accessor |-> "", op |-> "", err |-> "", before |-> 0]

(***************************************************************************)
(* SpecRate: a server with the rate limiter of a configuration; callers    *)
(* issue operations on the endpoints, and the interval of the stores       *)
(* elapses. pout holds the limiters, the calls each caller issued in the   *)
(* current interval by operation on the endpoint pin names, and the last   *)
(* call with what it returned.                                             *)
(***************************************************************************)
RateCall(endpoint, accessorID, op) ==
    /\ LET r == CheckRateLimit(pout.limiters, endpoint, accessorID, op)
           n == pout.issued[<<accessorID, op>>]
       IN  pout' = [pout EXCEPT
                       !.limiters = r.limiters,
                       !.issued[<<accessorID, op>>] =
                           IF endpoint = pin.endpoint /\ n < MaxIssued
                           THEN n + 1 ELSE n,
                       !.last = [endpoint |-> endpoint, accessor |-> accessorID,
                                 op |-> op, err |-> r.err,
                                 before |-> IF endpoint = pin.endpoint
                                            THEN n ELSE 0]]
    /\ UNCHANGED <<pin, storeVars, hookVars, aliasVars, lockVars>>

\* the interval of the stores elapses: every key has its tokens again
RateInterval ==
    /\ pout.issued # NoneIssued
    /\ pout' = [pout EXCEPT
                   !.issued = NoneIssued,
                   !.limiters = [e \in DOMAIN @ |->
                                    [@[e] EXCEPT !.write.used = EmptyMap,
                                                 !.read.used = EmptyMap,
                                                 !.list.used = EmptyMap]]]
    /\ UNCHANGED <<pin, storeVars, hookVars, aliasVars, lockVars>>

InitRate ==
    /\ pin \in [cfg : RateConfigs, endpoint : {"Namespace", "Job"}]
    /\ pout = [fn |-> "CheckRateLimit", limiters |-> newRateLimiter(pin.cfg),
               issued |-> NoneIssued, last |-> NoCall]
    /\ current = NewStore
    /\ db = EmptyDb
    /\ ret = NoRet
    /\ hook = NoHook
    /\ observers = EmptyMap
    /\ orphans = EmptyBag
    /\ panicked = ""
    /\ failures = 0
    /\ objects = EmptyMap
    /\ pointers = EmptyMap
    /\ listed = NoListed
    /\ lock = Unlocked
    /\ calls = NoCalls

NextRate ==
    \/ \E endpoint \in {"Namespace", "Job", "Node"}, accessorID \in Accessors,
          op \in RateOps : RateCall(endpoint, accessorID, op)
    \/ RateInterval

SpecRate == InitRate /\ [][NextRate]_vars

(***************************************************************************)
(* nomad/structs/config: Limits and its Copy, at the level of Go's         *)
(* pointers. A pointer is an address, 0 for nil; objects holds the int     *)
(* behind each *int and pointers the struct behind each                    *)
(* *RPCEndpointLimits. A Limits value is a record of its fields, the       *)
(* pointer fields holding addresses.                                       *)
(***************************************************************************)
NilPtr == 0

\* the *int fields of Limits, in the order Copy goes through them
LimitsIntFields ==
    <<"HTTPMaxConnsPerClient", "RPCMaxConnsPerClient", "RPCDefaultWriteRate",
      "RPCDefaultReadRate", "RPCDefaultListRate">>

\* the fields of RPCEndpointLimits, in the order its Copy goes through them
EndpointFields == <<"RPCWriteRate", "RPCReadRate", "RPCListRate">>

\* the *RPCEndpointLimits fields of Limits
LimitsEndpoints == {"Namespace", "Job"}

\* helper.IntToPtr(v) on the heap: a new address that holds v
NewInt(ints, v) ==
    LET a == Fresh(DOMAIN ints)
    IN  [p |-> a, ints |-> MapPut(ints, a, v)]

RECURSIVE CopyIntFields(_, _, _, _, _)
\* if l.F != nil { c.F = helper.IntToPtr(*l.F) } for the fields from the
\* i-th on. Each field is read before it is written, so reading l's fields
\* as they were is right when c and l are the same struct too.
CopyIntFields(c, l, ints, fields, i) ==
    IF i > Len(fields) THEN [c |-> c, ints |-> ints]
    ELSE IF l[fields[i]] = NilPtr
    THEN CopyIntFields(c, l, ints, fields, i + 1)
    ELSE LET new == NewInt(ints, ints[l[fields[i]]])
         IN  CopyIntFields([c EXCEPT ![fields[i]] = new.p], l, new.ints,
                           fields, i + 1)

\* (l *RPCEndpointLimits).Copy(): c := l makes c the pointer l itself, so
\* the fields are read and written in the struct l points to, and a nil l
\* is dereferenced
RPCEndpointLimitsCopy(l, ints, structs) ==
    IF l = NilPtr
    THEN [panic |-> "nil pointer dereference", c |-> NilPtr, ints |-> ints,
          structs |-> structs]
    ELSE LET r == CopyIntFields(structs[l], structs[l], ints, EndpointFields, 1)
         IN  [panic |-> "", c |-> l, ints |-> r.ints,
              structs |-> [structs EXCEPT ![l] = r.c]]

\* (l *Limits).Copy(): c := *l copies the fields, the five *int fields get
\* a new int each, and Namespace is what its Copy returns
LimitsCopy(l, ints, structs) ==
    LET r == CopyIntFields(l, l, ints, LimitsIntFields, 1)
        n == RPCEndpointLimitsCopy(l.Namespace, r.ints, structs)
    IN  [panic |-> n.panic,
         c |-> [r.c EXCEPT !.Namespace = n.c],
         ints |-> n.ints,
         structs |-> n.structs]

\* what a *int points to
DerefInt(a, ints) == IF a = NilPtr THEN NilInt ELSE IntToPtr(ints[a])

\* what a *RPCEndpointLimits points to, with what its fields point to
DerefEndpoint(a, ints, structs) ==
    IF a = NilPtr THEN NilEndpointLimits
    ELSE [f \in {"RPCWriteRate", "RPCReadRate", "RPCListRate"} |->
             DerefInt(structs[a][f], ints)]

\* a Limits value with everything its pointers lead to
DeepLimits(l, ints, structs) ==
    [f \in DOMAIN l |->
        IF f \in LimitsEndpoints THEN DerefEndpoint(l[f], ints, structs)
        ELSE IF f \in {"HTTPSHandshakeTimeout", "RPCHandshakeTimeout"} THEN l[f]
        ELSE DerefInt(l[f], ints)]

\* the Limits values of the model with their heaps: DefaultLimits() and
\* configurations with per-endpoint limits. Every pointer field has an
\* address of its own.
DefaultLimits ==
    [l |-> [HTTPSHandshakeTimeout |-> "5s", HTTPMaxConnsPerClient |-> 1,
            RPCHandshakeTimeout |-> "5s", RPCMaxConnsPerClient |-> 2,
            RPCDefaultWriteRate |-> 3, RPCDefaultReadRate |-> 4,
            RPCDefaultListRate |-> 5, Namespace |-> NilPtr, Job |-> NilPtr],
     ints |-> <<100, 100, 2147483647, 2147483647, 2147483647>>,
     structs |-> EmptyMap]

\* limits as the configuration of an agent gives them: the endpoints set or
\* not, a rate of an endpoint set or not, a default rate unset
ConfiguredLimits ==
    {[l |-> [DefaultLimits.l EXCEPT !.Namespace = ns, !.Job = job,
                                    !.RPCDefaultListRate = lst],
      ints |-> DefaultLimits.ints \o <<10, 20, 30>>,
      structs |-> [a \in {1, 2} |->
                      IF a = 1
                      THEN [RPCWriteRate |-> 6, RPCReadRate |-> rd,
                            RPCListRate |-> NilPtr]
                      ELSE [RPCWriteRate |-> 8, RPCReadRate |-> NilPtr,
                            RPCListRate |-> NilPtr]]] :
        ns \in {NilPtr, 1}, job \in {NilPtr, 2}, lst \in {NilPtr, 5},
        rd \in {NilPtr, 7}}

(***************************************************************************)
(* SpecLimits: a Limits value is copied and the holder of the copy writes  *)
(* through its pointers. pin holds the original and what it was worth when *)
(* the run began, pout the copy.                                           *)
(***************************************************************************)
\* c := l.Copy()
LimitsCopyCall ==
    /\ panicked = ""
    /\ pout = NoIDs
    /\ LET r == LimitsCopy(pin.l, objects, pointers)
       IN  IF r.panic # ""
           THEN /\ panicked' = r.panic
                /\ UNCHANGED <<pout, objects, pointers>>
           ELSE /\ pout' = [fn |-> "Copy", c |-> r.c]
                /\ objects' = r.ints
                /\ pointers' = r.structs
                /\ UNCHANGED panicked
    /\ UNCHANGED <<pin, listed, hook, observers, orphans, storeVars, lockVars>>

\* *c.F = v for a *int field F of the copy
CopyWriteInt(f, v) ==
    /\ panicked = ""
    /\ pout.fn = "Copy"
    /\ pout.c[f] # NilPtr
    /\ objects[pout.c[f]] # v
    /\ objects' = [objects EXCEPT ![pout.c[f]] = v]
    /\ UNCHANGED <<pointers, listed, pureVars, hookVars, storeVars, lockVars>>

\* *c.E.F = v for an endpoint E of the copy and a rate F of it
CopyWriteRate(e, f, v) ==
    /\ panicked = ""
    /\ pout.fn = "Copy"
    /\ pout.c[e] # NilPtr
    /\ pointers[pout.c[e]][f] # NilPtr
    /\ objects[pointers[pout.c[e]][f]] # v
    /\ objects' = [objects EXCEPT ![pointers[pout.c[e]][f]] = v]
    /\ UNCHANGED <<pointers, listed, pureVars, hookVars, storeVars, lockVars>>

\* c.E.F = nil for an endpoint E of the copy and a rate F of it
CopyUnsetRate(e, f) ==
    /\ panicked = ""
    /\ pout.fn = "Copy"
    /\ pout.c[e] # NilPtr
    /\ pointers[pout.c[e]][f] # NilPtr
    /\ pointers' = [pointers EXCEPT ![pout.c[e]][f] = NilPtr]
    /\ UNCHANGED <<objects, listed, pureVars, hookVars, storeVars, lockVars>>

InitLimits ==
    /\ \E v \in {DefaultLimits} \cup ConfiguredLimits :
          /\ pin = [l |-> v.l, was |-> DeepLimits(v.l, v.ints, v.structs)]
          /\ objects = v.ints
          /\ pointers = v.structs
    /\ pout = NoIDs
    /\ listed = NoListed
    /\ lock = Unlocked
    /\ calls = NoCalls
    /\ current = NewStore
    /\ db = EmptyDb
    /\ ret = NoRet
    /\ hook = NoHook
    /\ observers = EmptyMap
    /\ orphans = EmptyBag
    /\ panicked = ""
    /\ failures = 0

NextLimits ==
    \/ LimitsCopyCall
    \/ \E i \in DOMAIN LimitsIntFields, v \in {0, 50} :
          CopyWriteInt(LimitsIntFields[i], v)
    \/ \E e \in LimitsEndpoints, i \in DOMAIN EndpointFields, v \in {0, 50} :
          CopyWriteRate(e, EndpointFields[i], v)
    \/ \E e \in LimitsEndpoints, i \in DOMAIN EndpointFields :
          CopyUnsetRate(e, EndpointFields[i])

SpecLimits == InitLimits /\ [][NextLimits]_vars

(***************************************************************************)
(* Properties of the check ids (SpecCheckID).                              *)
(***************************************************************************)
\* C1: two check definitions of the same allocation, group, task and name
\* that differ in an execution-relevant field are given different ids, by
\* either derivation
C1_ChangedCheckChangesID ==
    (pout.fn # "none" /\ DiffFields(pin[1], pin[2]) # {}) => pout.a # pout.b

\* the same for NomadCheckID alone, the derivation that reads the fields
C1_ChangedCheckChangesNomadCheckID ==
    (pout.fn = "NomadCheckID" /\ DiffFields(pin[1], pin[2]) # {})
        => pout.a # pout.b

(***************************************************************************)
(* Properties of the check store (SpecStore).                              *)
(***************************************************************************)
\* the result cached or stored under (allocID, id), NoResult when there is none
Entry(m, allocID, id) ==
    IF allocID \in DOMAIN m /\ id \in DOMAIN m[allocID]
    THEN m[allocID][id] ELSE NoResult

\* every check id the model's allocations use
AllCheckIDs == UNION {GroupCheckIDs(a) : a \in AllocIDs}

\* C8: when the agent restarts, every result the db holds is in the cache of
\* the new store before any List or Set is served
C8_RestartRestoresResults ==
    [][StoreRestart =>
          \A a \in AllocIDs : \A id \in DOMAIN db[a] :
              Entry(current', a, id) = db[a][id]]_vars

\* C9: a List that follows Set(allocID, r) on the same allocation returns r
\* under r.ID, and Set changes no entry of another id or another allocation
C9_SetListRoundTrip ==
    [][/\ (ret.op = "Set" /\ ret'.op = "List" /\ ret'.alloc = ret.alloc)
            => /\ ~ret'.val.nil
               /\ ret.qr.ID \in DOMAIN ret'.val.m
               /\ ret'.val.m[ret.qr.ID] = ret.qr
       /\ (ret'.op = "Set" /\ panicked' = "")
            => \A a \in AllocIDs : \A id \in AllCheckIDs :
                  (a # ret'.alloc \/ id # ret'.qr.ID)
                      => Entry(current', a, id) = Entry(current, a, id)]_vars

\* a List of an allocation holding two results, returned right after a Set of
\* that allocation replaced one of them, while another allocation has results
C9_Witness ==
    /\ ret.op = "List"
    /\ ret.alloc = AllocID
    /\ Cardinality(DOMAIN ret.val.m) = 2
    /\ \E id \in DOMAIN ret.val.m : ret.val.m[id].Status = CheckSuccess
    /\ OtherAllocID \in DOMAIN current

\* C10: a Set whose db write fails returns the error and keeps its cache
\* entry, which a following List of the allocation shows
C10_SetKeepsCacheOnDbError ==
    [][/\ \A a \in AllocIDs : \A qr \in CallerResults(a) :
             StoreSet(a, qr, FALSE)
                 => /\ ret'.err
                    /\ Entry(current', a, qr.ID) = qr
       /\ (ret.op = "Set" /\ ret.err /\ ret'.op = "List" /\ ret'.alloc = ret.alloc)
            => /\ ret.qr.ID \in DOMAIN ret'.val.m
               /\ ret'.val.m[ret.qr.ID] = ret.qr]_vars

\* a Set has returned an error: the cache holds its result and the db does not
C10_Witness ==
    /\ ret.op = "Set"
    /\ ret.err
    /\ Entry(current, ret.alloc, ret.qr.ID) = ret.qr
    /\ Entry(db, ret.alloc, ret.qr.ID) # ret.qr

\* the ids cached under allocID
CachedIDs(m, allocID) == {id \in AllCheckIDs : Entry(m, allocID, id) # NoResult}

\* every entry of the cache and of the db that is not allocID's is as it was
OtherAllocsUnchanged(allocID) ==
    \A b \in AllocIDs \ {allocID} : \A id \in AllCheckIDs :
        /\ Entry(current', b, id) = Entry(current, b, id)
        /\ Entry(db', b, id) = Entry(db, b, id)

\* C12: Unwanted(allocID, keepIDs) returns exactly the cached ids of allocID
\* that are not in keepIDs, none for an unknown allocation, and changes
\* neither the cache nor the db
C12_UnwantedIsCachedMinusKept ==
    [][\A a \in AllocIDs : \A ids \in SUBSET GroupCheckIDs(a) :
          StoreUnwanted(a, ids)
              => /\ ret'.ids = {id \in CachedIDs(current, a) : id \notin ids}
                 /\ (a \notin DOMAIN current => ret'.ids = {})
                 /\ current' = current
                 /\ db' = db]_vars

\* Unwanted has returned one of the two cached ids of the allocation and not
\* the other
C12_Witness ==
    /\ ret.op = "Unwanted"
    /\ ret.alloc = AllocID
    /\ Cardinality(CachedIDs(current, AllocID)) = 2
    /\ Cardinality(ret.ids) = 1
    /\ ret.ids \subseteq CachedIDs(current, AllocID)

C14_PurgeRemovesEverything ==
    [][/\ \A a \in AllocIDs : \A ok \in BOOLEAN :
             StorePurge(a, ok)
                 => /\ CachedIDs(current', a) = {}
                    /\ CachedIDs(db', a) = {}
                    /\ ShimList(current', a).nil
                    /\ OtherAllocsUnchanged(a)
       /\ (ret.op = "Purge" /\ ret'.op = "List" /\ ret'.alloc = ret.alloc)
            => ret'.val.nil]_vars

\* C14, with the db's answer: Purge(allocID) removes every entry of allocID
\* from the cache whatever the db answers, returns the db's error, and the
\* entries of allocID are gone from the db when the db purged them; a List
\* of allocID right after it returns nil, and the other allocations keep
\* their entries
C14_PurgeRemovesCached ==
    [][/\ \A a \in AllocIDs : \A ok \in BOOLEAN :
             StorePurge(a, ok)
                 => /\ CachedIDs(current', a) = {}
                    /\ ret'.err = ~ok
                    /\ ok => CachedIDs(db', a) = {}
                    /\ ShimList(current', a).nil
                    /\ OtherAllocsUnchanged(a)
       /\ (ret.op = "Purge" /\ ret'.op = "List" /\ ret'.alloc = ret.alloc)
            => ret'.val.nil]_vars

\* a Purge has returned the db's error: the allocation is gone from the cache
\* and still in the db, and the other allocation has its result
C14_Witness ==
    /\ ret.op = "Purge"
    /\ ret.alloc = AllocID
    /\ ret.err
    /\ AllocID \notin DOMAIN current
    /\ CachedIDs(db, AllocID) # {}
    /\ CachedIDs(current, OtherAllocID) # {}

\* C16: from an empty cache over an empty db, after any sequence of Set, Keep
\* and Purge in which no db call fails, the cache and the db hold the same
\* result under every (allocID, check id)
C16_CacheEqualsDb ==
    \A a \in AllocIDs : \A id \in AllCheckIDs :
        Entry(current, a, id) = Entry(db, a, id)

\* a Keep has returned with one result of the allocation left, a success
\* that replaced the stub, while the other allocation is not in the cache
C16_Witness ==
    /\ ret.op = "Keep"
    /\ ret.alloc = AllocID
    /\ Cardinality(CachedIDs(current, AllocID)) = 1
    /\ \A id \in CachedIDs(current, AllocID) :
           Entry(db, AllocID, id).Status = CheckSuccess
    /\ OtherAllocID \notin DOMAIN current

(***************************************************************************)
(* Properties of the check store's lock (SpecLock).                        *)
(***************************************************************************)
\* a goroutine is between the Lock and the Unlock of a Set
InSet(g) == calls[g].pc \in {"locked", "cached", "stored"}

\* a goroutine is between the RLock and the RUnlock of a List
InList(g) == calls[g].pc \in {"rlocked", "read"}

\* no List runs while a Set is between its Lock and its Unlock, and no two
\* Sets are there together
SetsAreAtomic ==
    /\ \A g, h \in Goroutines : (InSet(g) /\ InList(h)) => FALSE
    /\ \A g, h \in Goroutines : (InSet(g) /\ InSet(h)) => g = h

\* C15: Sets that run at the same time are atomic: when a Set returns, the
\* cache and the db both hold its result under its check id, that Set being
\* the last one to have taken the lock, and a List never runs between the
\* Lock and the Unlock of a Set
C15_ConcurrentSetsAgree ==
    [][/\ \A g \in Setters :
             SetUnlock(g)
                 => /\ Entry(current', AllocID, calls[g].qr.ID) = calls[g].qr
                    /\ Entry(db', AllocID, calls[g].qr.ID) = calls[g].qr
       /\ SetsAreAtomic']_vars

\* C15, with the db's answer: when a Set returns, the cache holds its result
\* under its check id, and so does the db unless the Set returns the db's
\* error. A List never runs between the Lock and the Unlock of a Set
C15_ConcurrentSetsAgreeUnlessDbFails ==
    [][/\ \A g \in Setters :
             SetUnlock(g)
                 => /\ Entry(current', AllocID, calls[g].qr.ID) = calls[g].qr
                    /\ ~calls[g].err
                           => Entry(db', AllocID, calls[g].qr.ID) = calls[g].qr
       /\ SetsAreAtomic']_vars

\* one observer is about to return the db's error from a Set that replaced
\* a result in the cache, the db still holding the replaced result, while
\* the other observer and the reader wait for the lock
C15_Witness ==
    \E g \in Setters :
        /\ calls[g].pc = "stored"
        /\ calls[g].err
        /\ lock.writer = g
        /\ Entry(current, AllocID, calls[g].qr.ID) = calls[g].qr
        /\ Entry(db, AllocID, calls[g].qr.ID) \notin {calls[g].qr, NoResult}
        /\ \A h \in Goroutines \ {g} : calls[h].pc = "idle"

(***************************************************************************)
(* Properties of the check store's pointers (SpecAlias).                   *)
(***************************************************************************)
\* C11: what List returned shares nothing with the store: no Set, Keep or
\* Purge changes the map the caller holds or the results in it, nothing the
\* caller writes to that map or to its results changes what the store
\* returns, and List of an allocation without entries returns nil
C11_ListSharesNothing ==
    [][/\ (\/ \E qr \in CallerResults(AllocID) : AliasSet(AllocID, qr)
           \/ \E id \in GroupCheckIDs(AllocID) : AliasSetListed(AllocID, id)
           \/ \E ids \in SUBSET GroupCheckIDs(AllocID) : AliasKeep(AllocID, ids)
           \/ AliasPurge(AllocID))
            => /\ listed' = listed
               /\ Deref(listed'.m, objects') = Deref(listed.m, objects)
       /\ (\/ \E id \in GroupCheckIDs(AllocID) : CallerWritesResult(id, CheckFailure)
           \/ \E id \in GroupCheckIDs(AllocID) : CallerDeletesKey(id))
            => StoreView(pointers', objects') = StoreView(pointers, objects)
       /\ \A a \in AllocIDs :
             (AliasList(a) /\ a \notin DOMAIN pointers) => listed'.nil]_vars

(***************************************************************************)
(* Properties of the checks hook (Spec).                                   *)
(***************************************************************************)
\* the id observe gives the i-th (service, check) pair of alloc
ObserveID(alloc, pair) ==
    MakeCheckID(alloc.ID, alloc.TaskGroup, pair.check.TaskName, pair.check.Name)

\* the check ids of the checks of alloc: the desired set
ObserveIDs(alloc) ==
    LET pairs == ServiceChecksOf(alloc.Services)
    IN  {ObserveID(alloc, pairs[i]) : i \in DOMAIN pairs}

\* the orphans whose observer had the given id
OrphansOf(bag, id) == {o \in BagToSet(bag) : o.qc.ID = id}

\* C2: an Update that returns nil and finds a started observer running a check
\* under a definition that differs in an execution-relevant field leaves an
\* observer of the new definition in its place
C2_ChangedCheckIsReplaced ==
    [][\A request \in Allocations, now \in Times :
          (Update(request, TRUE, TRUE, now) /\ panicked' = "") =>
              LET pairs == ServiceChecksOf(request.Services)
              IN  \A i \in DOMAIN pairs :
                      LET id == ObserveID(request, pairs[i])
                      IN  (/\ id \in DOMAIN observers
                           /\ observers[id].pc # "new"
                           /\ DiffFields(observers[id].check, pairs[i].check) # {})
                          => /\ id \in DOMAIN observers'
                             /\ observers'[id].check = pairs[i].check]_vars

\* C3: after an Update that returns nil, with S the ids observed before and D
\* the ids of the new allocation's checks: the observers are those of D, every
\* id of S \ D is cancelled and gone from the store, and every id of D \ S has
\* a started observer and a result in the store
C3_UpdateReconciles ==
    [][\A request \in Allocations, okSet \in BOOLEAN, now \in Times :
          (request.Found /\ Update(request, TRUE, okSet, now) /\ panicked' = "") =>
              LET S == DOMAIN observers
                  D == ObserveIDs(request)
              IN  /\ DOMAIN observers' = D
                  /\ \A id \in S \ D :
                        Entry(current', request.ID, id) = NoResult
                  /\ \A id \in D \ S :
                        /\ observers'[id].pc # "new"
                        /\ Entry(current', request.ID, id) # NoResult]_vars

\* C4: an Update with the allocation the hook already holds, whose checks are
\* the ones observed, creates, starts and cancels no observer
C4_UpdateIsIdempotent ==
    [][\A request \in Allocations, okRemove \in BOOLEAN, okSet \in BOOLEAN,
          now \in Times :
          (/\ request.Found
           /\ hook.alloc = request
           /\ DOMAIN observers = ObserveIDs(request)
           /\ Update(request, okRemove, okSet, now))
          => /\ observers' = observers
             /\ orphans' = orphans
             /\ panicked' = ""]_vars

\* C5: an Update leaves alone every observer whose id is among the ids of the
\* new allocation's checks: the observer, its goroutine and its result
C5_KeptObserverUntouched ==
    [][\A request \in Allocations, okRemove \in BOOLEAN, okSet \in BOOLEAN,
          now \in Times :
          (request.Found /\ Update(request, okRemove, okSet, now)) =>
              \A id \in DOMAIN observers \cap ObserveIDs(request) :
                  /\ id \in DOMAIN observers'
                  /\ observers'[id] = observers[id]
                  /\ OrphansOf(orphans', id) = OrphansOf(orphans, id)
                  /\ Entry(current', request.ID, id)
                        = Entry(current, request.ID, id)]_vars

\* the same for the allocations whose checks Update and observe name alike
C5_KeptObserverUntouchedWhenIdsAgree ==
    [][\A request \in Allocations, okRemove \in BOOLEAN, okSet \in BOOLEAN,
          now \in Times :
          (/\ request.Found
           /\ NextIDs(request) = ObserveIDs(request)
           /\ Update(request, okRemove, okSet, now)) =>
              \A id \in DOMAIN observers \cap ObserveIDs(request) :
                  /\ id \in DOMAIN observers'
                  /\ observers'[id] = observers[id]
                  /\ OrphansOf(orphans', id) = OrphansOf(orphans, id)
                  /\ Entry(current', request.ID, id)
                        = Entry(current, request.ID, id)]_vars

\* C6: once PreKill has returned, List of the allocation is empty
C6_ListEmptyAfterPreKill ==
    hook.ctx = "done" => ShimList(current, AllocID).m = EmptyMap

\* C6, second part: once PreKill has returned, no observer begins a probe
C6_NoProbeAfterPreKill ==
    [][hook.ctx = "done" =>
          /\ \A id \in DOMAIN observers : ~ObserverTimer(id)
          /\ \A o \in BagToSet(orphans) : ~OrphanTimer(o)]_vars

\* C7: no observer calls Set on the store once its context is cancelled
C7_NoSetAfterCancel ==
    [][\A status \in Statuses, now \in Times, ok \in BOOLEAN :
          /\ \A id \in DOMAIN observers :
                ObserverSet(id, status, now, ok)
                    => ~CtxDone(observers[id], hook.ctx)
          /\ \A o \in BagToSet(orphans) :
                OrphanSet(o, status, now, ok) => ~CtxDone(o, hook.ctx)]_vars

\* C17: every observer the hook has made has a result under its check id in
\* the store from the moment it is made, the pending stub, which is there
\* before start is launched; until Update removes the check or PreKill
\* purges the allocation, List(allocID) has an entry for it
C17_StubBeforeLaunch ==
    [][/\ \A id \in DOMAIN observers' \ DOMAIN observers :
             \E now \in Times :
                 Entry(current', AllocID, id)
                     = Stub(id, GetCheckMode(observers'[id].check), now)
       /\ (hook'.ctx = "live")
            => \A id \in DOMAIN observers' :
                  /\ ~ShimList(current', AllocID).nil
                  /\ id \in DOMAIN ShimList(current', AllocID).m]_vars

\* an observer has probed and set its result, another one waits for its
\* timer with its stub in the store, and an observer Update stopped still
\* runs
C17_Witness ==
    /\ hook.ctx = "live"
    /\ \E id \in DOMAIN observers :
           /\ observers[id].pc = "wait"
           /\ Entry(current, AllocID, id).Status = CheckSuccess
    /\ \E id \in DOMAIN observers :
           /\ observers[id].pc = "wait"
           /\ Entry(current, AllocID, id).Status = CheckPending
    /\ orphans # EmptyBag

C19_PreKillNeverPanics ==
    [][\A ok \in BOOLEAN : PreKill(ok) => panicked' = ""]_vars

\* C20: an Update whose allocation names a task group that is not in the job
\* changes nothing: no observer is made, stopped or launched, the hook keeps
\* its allocation, nothing is written to or deleted from the store
C20_GrouplessUpdateIsNoOp ==
    [][\A okRemove \in BOOLEAN, okSet \in BOOLEAN, now \in Times :
          Update(GrouplessAlloc, okRemove, okSet, now)
              => UNCHANGED <<hook, observers, orphans, panicked, current, db,
                             failures>>]_vars

\* a hook whose observers run and have set results, and that can be handed
\* an Update for an allocation without its task group
C20_Witness ==
    /\ hook.ctx = "live"
    /\ hook.alloc.Found
    /\ \E id \in DOMAIN observers : observers[id].pc = "probe"
    /\ \E id \in DOMAIN observers :
           Entry(current, AllocID, id).Status = CheckSuccess
    /\ ENABLED Update(GrouplessAlloc, TRUE, TRUE, 1)

\* C21: on a hook built for an allocation whose task group is missing, an
\* Update with an allocation that has its group, the store failing no call,
\* returns without a panic and leaves a launched observer and a pending stub
\* for every check of the new allocation
C21_UpdateAfterGroupless ==
    [][\A request \in Allocations, now \in Times :
          (hook.ctx = "nil" /\ request.Found /\ Update(request, TRUE, TRUE, now))
              => /\ panicked' = ""
                 /\ \A id \in ObserveIDs(request) :
                        /\ id \in DOMAIN observers'
                        /\ observers'[id].pc = "wait"
                        /\ Entry(current', AllocID, id).Status = CheckPending]_vars

C24_OneProbePerCheck ==
    \A id \in AllCheckIDs \cup DOMAIN observers :
        Cardinality({o \in OrphansOf(orphans, id) : o.pc = "probe"})
          + (IF id \in DOMAIN observers /\ observers[id].pc = "probe" THEN 1 ELSE 0)
          <= 1

\* no goroutine of an observer is left: those in the map have returned or
\* were never launched, those Update stopped have returned
AllExited ==
    /\ \A id \in DOMAIN observers : observers[id].pc \in {"exit", "new"}
    /\ orphans = EmptyBag

MadeCalls(fn) ==
    {i \in DOMAIN pout.r.made : pout.r.made[i].fn = fn}

\* the address the probe works with when GetAddress returns host and port
ResolvedAddress ==
    LET host == pin.env.resolve.addr
    IN  IF pin.env.resolve.port = 8080
        THEN (IF host = "::1" THEN "[::1]:8080" ELSE host \o ":8080")
        ELSE host

\* C25: Do returns a result whose status is success or failure, never
\* pending, under the check id of the query context, for every query and
\* query context; a query of a type other than http is run as a TCP probe:
\* the address is resolved and dialled over tcp, no HTTP request is made
C25_DoReturnsResult ==
    pout.fn = "Do"
        => /\ pout.r.qr.Status \in {CheckSuccess, CheckFailure}
           /\ pout.r.qr.ID = pin.qc.ID
           /\ pin.q.Type # "http"
                  => /\ MadeCalls("NewRequest") \cup MadeCalls("Do") = {}
                     /\ pin.env.resolve.err = ""
                            => \E i \in MadeCalls("Dial") :
                                  /\ pout.r.made[i].a = "tcp"
                                  /\ pout.r.made[i].b = ResolvedAddress
                     /\ pout.r.qr.Status = CheckSuccess
                            <=> (pin.env.resolve.err = "" /\ pin.env.dial = "")
           /\ pin.q.Type = "http" => MadeCalls("Dial") = {}

\* a query of a type that is neither http nor tcp was run: the address was
\* dialled and the dial failed
C25_Witness ==
    /\ pout.fn = "Do"
    /\ pin.q.Type = "script"
    /\ MadeCalls("Dial") # {}
    /\ pout.r.qr.Status = CheckFailure
    /\ pout.r.qr.Output = pin.env.dial

\* C26: an HTTP probe whose address resolves is a success exactly when the
\* request was built and sent, a response came and its status code is below
\* 400, whether the body could be read or not
C26_HTTPStatusByCode ==
    (pout.fn = "Do" /\ pin.q.Type = "http" /\ pin.env.resolve.err = "")
        => /\ pout.r.qr.Status = CheckSuccess
                  <=> /\ pin.env.http.requestErr = ""
                      /\ pin.env.http.transportErr = ""
                      /\ pin.env.http.code < 400
           /\ pout.r.qr.Status # CheckSuccess => pout.r.qr.Status = CheckFailure

\* a response with code 399 whose body could not be read: a success
C26_Witness ==
    /\ pout.fn = "Do"
    /\ pin.q.Type = "http"
    /\ pin.env.resolve.err = ""
    /\ pin.env.http.code = 399
    /\ pin.env.http.readErr # ""
    /\ pout.r.qr.Status = CheckSuccess
    /\ MadeCalls("ReadAll") # {}

\* C27: when GetAddress returns an error the probe, TCP or HTTP, returns a
\* failure whose Output is the error's text, having called GetAddress once
\* and nothing else: no dial, no request
C27_ResolutionFailureShortCircuits ==
    (pout.fn = "Do" /\ pin.env.resolve.err # "")
        => /\ pout.r.qr.Status = CheckFailure
           /\ pout.r.qr.Output = pin.env.resolve.err
           /\ Len(pout.r.made) = 1
           /\ pout.r.made[1].fn = "GetAddress"

\* a probe, HTTP or TCP, has returned a failure after a resolution that
\* failed, where the dial and the request would have succeeded
C27_Witness ==
    /\ pout.fn = "Do"
    /\ pin.env.resolve.err # ""
    /\ pin.q.Type \in {"http", "tcp"}
    /\ pin.env.dial = ""
    /\ pin.env.http.code = 200
    /\ pout.r.qr.Status = CheckFailure

\* C28: the address mode handed to GetAddress is the check's when it has
\* one, else auto when the service has a custom address, else host
C28_AddressMode ==
    pout.fn = "Do"
        => \A i \in MadeCalls("GetAddress") :
              pout.r.made[i].b
                  = (IF pin.q.AddressMode # "" THEN pin.q.AddressMode
                     ELSE IF pin.qc.CustomAddress # "" THEN "auto"
                     ELSE "host")

\* a check without an address mode of a service with a custom address was
\* resolved in the mode auto, with the custom address
C28_Witness ==
    /\ pout.fn = "Do"
    /\ pin.q.AddressMode = ""
    /\ pin.qc.CustomAddress # ""
    /\ pout.r.made[1].fn = "GetAddress"
    /\ pout.r.made[1].a = pin.qc.CustomAddress
    /\ pout.r.made[1].b = "auto"

\* C29: the port label handed to GetAddress is the check's when it is not
\* empty and the service's otherwise; the address dialled or requested is
\* host:port when the port resolved is above 0 and the host alone when it
\* is 0
C29_PortLabelAndPort ==
    pout.fn = "Do"
        => /\ \A i \in MadeCalls("GetAddress") :
                 pout.r.made[i].c
                     = (IF pin.q.PortLabel # "" THEN pin.q.PortLabel
                        ELSE pin.qc.ServicePortLabel)
           /\ \A i \in MadeCalls("Dial") : pout.r.made[i].b = ResolvedAddress
           /\ \A i \in MadeCalls("NewRequest") \cup MadeCalls("Do") :
                 pout.r.made[i].b
                     = pin.q.Protocol \o "://" \o ResolvedAddress \o pin.q.Path

\* a check with its own port label, of a service that has one too, was
\* resolved with the check's label and dialled at host:port
C29_Witness ==
    /\ pout.fn = "Do"
    /\ pin.q.PortLabel = "chk"
    /\ pin.qc.ServicePortLabel = "svc"
    /\ pout.r.made[1].c = "chk"
    /\ \E i \in MadeCalls("Dial") : pout.r.made[i].b = "10.0.0.5:8080"

\* C30: the Output of every result the checker returns, and of every result
\* in the store, is at most the cap long
C30_OutputWithinCap ==
    /\ pout.fn = "Do" => Len(pout.r.qr.Output) <= OutputSizeCap
    /\ \A a \in DOMAIN current : \A id \in DOMAIN current[a] :
           Len(current[a][id].Output) <= OutputSizeCap

(***************************************************************************)
(* Properties of the observers' writes (Spec).                             *)
(***************************************************************************)
\* the (allocation, check id) places of the cache that a step wrote
Written(old, new) ==
    {w \in UNION {{<<a, k>> : k \in DOMAIN new[a]} : a \in DOMAIN new} :
        Entry(old, w[1], w[2]) # new[w[1]][w[2]]
            \/ w[1] \notin DOMAIN old \/ w[2] \notin DOMAIN old[w[1]]}

\* the same for the durable store
WrittenDb(old, new) ==
    {w \in UNION {{<<a, k>> : k \in DOMAIN new[a]} : a \in DOMAIN new} :
        w[2] \notin DOMAIN old[w[1]] \/ old[w[1]][w[2]] # new[w[1]][w[2]]}

\* C32: every Set an observer issues, an observer that Update has taken out
\* of the map included, writes under the observer's own allocation and its
\* own check id, in the cache and in the db, and the result it writes
\* carries that id.
C32_ObserverWritesOwnResult ==
    [][/\ \A id \in DOMAIN observers, status \in Statuses, now \in Times,
             ok \in BOOLEAN :
             ObserverSet(id, status, now, ok)
                 => /\ Written(current, current') \subseteq {<<AllocID, id>>}
                    /\ WrittenDb(db, db') \subseteq {<<AllocID, id>>}
                    /\ current'[AllocID][id].ID = observers[id].qc.ID
                    /\ observers[id].qc.ID = id
                    /\ observers[id].allocID = AllocID
       /\ \A o \in BagToSet(orphans), status \in Statuses, now \in Times,
             ok \in BOOLEAN :
             OrphanSet(o, status, now, ok)
                 => /\ Written(current, current') \subseteq {<<o.allocID, o.qc.ID>>}
                    /\ WrittenDb(db, db') \subseteq {<<o.allocID, o.qc.ID>>}
                    /\ current'[o.allocID][o.qc.ID].ID = o.qc.ID
                    /\ o.allocID = AllocID]_vars

\* an observer is about to set its result while the store holds the result
\* of another check, and an observer taken out of the map is about to set
\* its own
C32_Witness ==
    /\ \E id \in DOMAIN observers :
          /\ observers[id].pc = "probe"
          /\ \E other \in DOMAIN observers \ {id} :
                Entry(current, AllocID, other).Status \in Statuses
    /\ \E o \in BagToSet(orphans) : o.pc = "probe"

(***************************************************************************)
(* Properties of the store and the observer map (Spec).                    *)
(***************************************************************************)
\* the check ids the store holds for the hook's allocation
StoredIDs == IF AllocID \in DOMAIN current THEN DOMAIN current[AllocID] ELSE {}

\* C35: in every state between the lifecycle calls, where h.lock is free,
\* the check ids the store holds for the allocation are the keys of the
\* observer map, and no Update has dereferenced an observer that is not in
\* the map.
C35_StoreIdsAreObserverKeys ==
    /\ (panicked = "" /\ hook.ctx = "live") => StoredIDs = DOMAIN observers
    /\ hook.ctx # "nil" => panicked # "nil pointer dereference"

\* C36: every observer in the map, in every state between the lifecycle
\* calls, has had its loop launched, whether the db stored its pending stub
\* or not.
C36_EveryObserverLaunched ==
    \A id \in DOMAIN observers :
        observers[id].starts >= 1 /\ observers[id].pc # "new"

\* the check id Update puts in its desired set for a (service, check) pair
UpdateID(alloc, pair) ==
    MakeCheckID(alloc.ID, alloc.TaskGroup, pair.service.TaskName, pair.check.Name)

\* C37: for every check of the hook's allocation that observe has
\* registered, the id Update puts in the desired set is the id its observer
\* and its stub are registered under.
C37_UpdateAndObserveAgree ==
    LET pairs == ServiceChecksOf(hook.alloc.Services)
    IN  \A i \in DOMAIN pairs :
            ObserveID(hook.alloc, pairs[i]) \in DOMAIN observers
                => UpdateID(hook.alloc, pairs[i]) = ObserveID(hook.alloc, pairs[i])

\* C38: an Update whose shim.Remove returns an error keeps the allocation
\* the hook had and creates no observer; the observers of the unwanted ids
\* are out of the map, those that were running with their context
\* cancelled, and the other observers are as they were.
C38_UpdateStopsAtRemoveError ==
    [][\A request \in Allocations, okSet \in BOOLEAN, now \in Times :
          Update(request, FALSE, okSet, now)
              => LET remove == ShimUnwanted(current, request.ID, NextIDs(request))
                 IN  /\ hook' = hook
                     /\ panicked' = ""
                     /\ DOMAIN observers' = DOMAIN observers \ remove
                     /\ \A id \in DOMAIN observers' : observers'[id] = observers[id]
                     /\ \A id \in remove :
                           observers[id].pc \in {"wait", "probe"}
                               => \E o \in BagToSet(orphans') :
                                     /\ o.qc.ID = id
                                     /\ o.cancelled
                                     /\ CtxDone(o, hook'.ctx)]_vars

\* after an Update whose Remove failed: the hook has the allocation it had,
\* with a check, and no observer for it; the observer it had runs on,
\* cancelled, out of the map
C38_Witness ==
    /\ panicked = ""
    /\ hook.ctx = "live"
    /\ failures > 0
    /\ hook.alloc.Services # <<>>
    /\ observers = EmptyMap
    /\ \E o \in BagToSet(orphans) : o.cancelled /\ o.qc.ID \in ObserveIDs(hook.alloc)

(***************************************************************************)
(* Properties of the rate limiter (SpecRate).                              *)
(***************************************************************************)
\* C39: a call of CheckRateLimit on a configured endpoint returns nil when
\* its caller has issued fewer operations of that type in the interval
\* than the rate configured for the type, and ErrTooManyRequests when the
\* caller has issued that many; the callers and the types are counted
\* apart.
C39_LimitedOnlyBeyondRate ==
    (pout.last.endpoint = pin.endpoint)
        => LET rate == ConfiguredRate(pin.cfg, pin.endpoint, pout.last.op)
           IN  IF rate.max \/ pout.last.before < rate.n
               THEN pout.last.err = ""
               ELSE pout.last.err = ErrTooManyRequests

(***************************************************************************)
(* Properties of Limits.Copy (SpecLimits).                                 *)
(***************************************************************************)
\* the addresses a Limits value holds, of ints and of endpoint structs
IntAddrs(l, structs) ==
    ({l[LimitsIntFields[i]] : i \in DOMAIN LimitsIntFields}
        \cup UNION {{structs[l[e]][EndpointFields[i]] : i \in DOMAIN EndpointFields} :
                      e \in {x \in LimitsEndpoints : l[x] # NilPtr}})
    \ {NilPtr}

EndpointAddrs(l) == {l[e] : e \in LimitsEndpoints} \ {NilPtr}

\* C40: Copy does not panic, for the default limits either; the copy is
\* worth what the original is; no pointer of the copy, those of its
\* endpoints included, is a pointer of the original; and whatever is
\* written through the copy, the original stays worth what it was.
C40_CopyIsDeep ==
    /\ panicked = ""
    /\ pout.fn = "Copy"
          => /\ IntAddrs(pout.c, pointers) \cap IntAddrs(pin.l, pointers) = {}
             /\ EndpointAddrs(pout.c) \cap EndpointAddrs(pin.l) = {}
             /\ DeepLimits(pin.l, objects, pointers) = pin.was

(***************************************************************************)
(* Properties of the observer's loop (SpecLoop).                           *)
(***************************************************************************)
\* the observer of id waits after an execution that failed, or whose result
\* the db did not store
WaitsAfterFailure(id) ==
    /\ id \in DOMAIN observers
    /\ observers[id].pc = "wait"
    /\ pout.fn = "timer" /\ pout.id = id /\ pout.runs > 0
    /\ \/ Entry(current, AllocID, id).Status = CheckFailure
       \/ /\ Entry(current, AllocID, id).Status \in Statuses
          /\ Entry(db, AllocID, id) # Entry(current, AllocID, id)

\* C34: the loop of an observer ends only when its context is cancelled;
\* an execution, whatever its result and whether the db stored it, is
\* followed by the select with the timer armed with the full interval; and
\* an observer that waits after a failed execution or a failed Set
\* executes the check again, unless its context is cancelled.
C34_LoopEndsOnlyByCancel ==
    /\ [][\A id \in DOMAIN observers :
             /\ (observers[id].pc # "exit" /\ observers'[id].pc = "exit")
                   => CtxDone(observers[id], hook.ctx)
             /\ (observers[id].pc = "probe" /\ observers'[id].pc # "probe")
                   => /\ observers'[id].pc = "wait"
                      /\ pout'.armed = observers[id].check.Interval]_vars
    /\ \A id \in HookCheckIDs :
          WaitsAfterFailure(id)
              ~> (\/ id \in DOMAIN observers /\ observers[id].pc = "probe"
                  \/ hook.ctx = "done")

\* the observer has executed its check a second time after a failure, on a
\* db that did not store a result
C34_Witness ==
    /\ failures > 0
    /\ pout.fn = "timer" /\ pout.runs = 1
    /\ Entry(current, AllocID, pout.id).Status = CheckFailure
    /\ observers[pout.id].pc = "probe"
    /\ hook.ctx = "live"

(***************************************************************************)
(* Properties of the hook's lock (SpecHookLock).                           *)
(***************************************************************************)
\* a probe is in flight: an observer, in the map or taken out of it, is
\* between its timer and the return of its Set
ProbeInFlight ==
    \/ \E id \in DOMAIN observers : observers[id].pc = "probe"
    \/ \E o \in BagToSet(orphans) : o.pc = "probe"

\* the Update with this request would stop more observers than the model
\* follows
BeyondMaxOrphans(request) ==
    /\ request.Found
    /\ LET remove == ShimUnwanted(current, request.ID, NextIDs(request))
       IN  /\ remove \subseteq DOMAIN observers
           /\ BagCardinality(orphans (+) Stopped(observers, remove)) > MaxOrphans

\* C33: the holder of h.lock is a lifecycle call, never an observer; while
\* a probe is in flight and no lifecycle call holds the lock, each of
\* Prerun, Update and PreKill can take it, and the call that holds it runs
\* to its return; every step that changes the key set of the observer map
\* is made by the holder of the lock.
C33_LockNeverHeldAroundProbe ==
    /\ [](lock.writer \in HookMethods \cup {""})
    /\ []((ProbeInFlight /\ panicked = "" /\ lock.writer \notin HookMethods)
            => /\ ENABLED HookLock("PreKill")
               /\ hook.ctx # "done"
                    => ENABLED HookLock("Prerun") /\ ENABLED HookLock("Update"))
    /\ []((ProbeInFlight /\ panicked = "")
            => /\ lock.writer = "Prerun" => \A now \in Times : ENABLED HookPrerun(TRUE, now)
               /\ lock.writer = "PreKill" => ENABLED HookPreKill(TRUE)
               /\ lock.writer = "Update"
                    => \A request \in Allocations, now \in Times :
                          \/ ENABLED HookUpdate(request, TRUE, TRUE, now)
                          \/ BeyondMaxOrphans(request))
    /\ [][DOMAIN observers' # DOMAIN observers
            => lock.writer \in HookMethods /\ lock'.writer = ""]_vars

\* Update holds the lock while one observer is inside a probe and another
\* waits for its timer
C33_Witness ==
    /\ lock.writer = "Update"
    /\ \E id \in DOMAIN observers :
          /\ observers[id].pc = "probe"
          /\ \E other \in DOMAIN observers \ {id} : observers[other].pc = "wait"

(***************************************************************************)
(* Properties of the mode of a check (SpecMode).                           *)
(***************************************************************************)
\* the mode the check of the run must have
ModeOfPolicy ==
    IF pin.check # NilCheck /\ pin.check.OnUpdate = "ignore"
    THEN Readiness ELSE Healthiness

\* C31: the mode of a check is Readiness exactly when its on_update is
\* "ignore", and Healthiness for every other value and for the nil check;
\* the pending stub and every executed result stored for the check carry
\* that mode.
C31_ModeFollowsOnUpdate ==
    /\ pout.fn = "GetCheckMode" => pout.mode = ModeOfPolicy
    /\ \A a \in DOMAIN current : \A id \in DOMAIN current[a] :
          current[a][id].Kind = ModeOfPolicy

\* a check with on_update "ignore" has been executed and its result stored
C31_Witness ==
    /\ pin.check # NilCheck
    /\ pin.check.OnUpdate = "ignore"
    /\ \E id \in DOMAIN observers :
          /\ id \in DOMAIN current[AllocID]
          /\ current[AllocID][id].Status \in Statuses
          /\ current[AllocID][id].Kind = Readiness

====
